---- MODULE Spec2Model ----
(***************************************************************************)
(* State-machine model of moto/logs/models.py: the in-memory registry of   *)
(* log groups, log streams and log events (LogsBackend, LogGroup,          *)
(* LogStream, LogEvent), with the cursor pagination of get_log_events and  *)
(* the offset pagination of filter_log_events.                             *)
(*                                                                         *)
(* Python values are represented as follows.                               *)
(*   - an insertion-ordered dict is a sequence of records [k, v];          *)
(*   - an optional value (None or x) is [present |-> FALSE] or             *)
(*     [present |-> TRUE, v |-> x];                                        *)
(*   - a str is a sequence of one-character strings, a character outside   *)
(*     Latin-1 being written by the name of its code point ("U+0663");     *)
(*   - a dict of tags is an object with an identity: a group's tags field  *)
(*     holds the identity, and the heap (dicts) the items of each dict     *)
(*     that some group holds;                                              *)
(*   - a raised exception is a result record whose status is the           *)
(*     exception's name.                                                   *)
(***************************************************************************)
EXTENDS Integers, Sequences, FiniteSets, TLC

VARIABLES
    backends,   \* logs_backends: region -> LogsBackend (its groups dict)
    event_id,   \* LogEvent._event_id, the class attribute shared by all events
    log_ids,    \* LogStream._log_ids, the class attribute shared by all streams
    ret,        \* the last call: operation, arguments and outcome
    sess,       \* the calling client's paging chain
    put_calls,  \* history: put_log_events calls made on each live stream
    dicts       \* the tag dict objects the groups hold: object id -> items

vars == <<backends, event_id, log_ids, ret, sess, put_calls, dicts>>

(***************************************************************************)
(* Bounds of the model.                                                    *)
(***************************************************************************)
MaxEvents == 2      \* events ever created: LogEvent._event_id <= MaxEvents
MaxStreams == 2     \* streams ever created: LogStream._log_ids <= MaxStreams
MaxPuts == 2        \* put_log_events calls on one stream
MaxBatch == 2       \* events in one put_log_events batch
MaxClock == 1       \* unix_time_millis() returns a value of 1..MaxClock
MaxView == 3        \* events of a stream the paging specifications start from
MaxTs == 2          \* event timestamps are 1..MaxTs
MaxLimit == 2       \* limits are 0..MaxLimit

(***************************************************************************)
(* Program constants.                                                      *)
(***************************************************************************)
TokenWidth == 56    \* "{:056d}"
\* the longest digit string int() converts (sys.int_info.default_max_str_digits)
MaxStrDigits == 4300

(***************************************************************************)
(* Optional values.                                                        *)
(***************************************************************************)
None == [present |-> FALSE]
Some(x) == [present |-> TRUE, v |-> x]

(***************************************************************************)
(* Insertion-ordered dicts.                                                *)
(***************************************************************************)
Keys(d) == {d[i].k : i \in 1..Len(d)}
Has(d, key) == key \in Keys(d)
IndexOf(d, key) == CHOOSE i \in 1..Len(d) : d[i].k = key
Get(d, key) == d[IndexOf(d, key)].v
\* d[key] = val: an existing key keeps its position, a new key goes last
Put(d, key, val) ==
    IF Has(d, key)
    THEN [d EXCEPT ![IndexOf(d, key)] = [k |-> key, v |-> val]]
    ELSE Append(d, [k |-> key, v |-> val])
\* del d[key]
Del(d, key) == SelectSeq(d, LAMBDA e : e.k # key)

(***************************************************************************)
(* Strings and the decimal conversions.                                    *)
(***************************************************************************)
DigitChars == <<"0", "1", "2", "3", "4", "5", "6", "7", "8", "9">>

\* the characters int() reads as decimal digits: the runs of ten of the
\* Unicode category Nd, each from its zero to its nine.  A character
\* outside Latin-1 is written by the name of its code point
DecimalDigitRuns ==
    <<DigitChars,
      <<"U+0660", "U+0661", "U+0662", "U+0663", "U+0664", "U+0665", "U+0666", "U+0667", "U+0668", "U+0669">>,
      <<"U+06F0", "U+06F1", "U+06F2", "U+06F3", "U+06F4", "U+06F5", "U+06F6", "U+06F7", "U+06F8", "U+06F9">>,
      <<"U+07C0", "U+07C1", "U+07C2", "U+07C3", "U+07C4", "U+07C5", "U+07C6", "U+07C7", "U+07C8", "U+07C9">>,
      <<"U+0966", "U+0967", "U+0968", "U+0969", "U+096A", "U+096B", "U+096C", "U+096D", "U+096E", "U+096F">>,
      <<"U+09E6", "U+09E7", "U+09E8", "U+09E9", "U+09EA", "U+09EB", "U+09EC", "U+09ED", "U+09EE", "U+09EF">>,
      <<"U+0A66", "U+0A67", "U+0A68", "U+0A69", "U+0A6A", "U+0A6B", "U+0A6C", "U+0A6D", "U+0A6E", "U+0A6F">>,
      <<"U+0AE6", "U+0AE7", "U+0AE8", "U+0AE9", "U+0AEA", "U+0AEB", "U+0AEC", "U+0AED", "U+0AEE", "U+0AEF">>,
      <<"U+0B66", "U+0B67", "U+0B68", "U+0B69", "U+0B6A", "U+0B6B", "U+0B6C", "U+0B6D", "U+0B6E", "U+0B6F">>,
      <<"U+0BE6", "U+0BE7", "U+0BE8", "U+0BE9", "U+0BEA", "U+0BEB", "U+0BEC", "U+0BED", "U+0BEE", "U+0BEF">>,
      <<"U+0C66", "U+0C67", "U+0C68", "U+0C69", "U+0C6A", "U+0C6B", "U+0C6C", "U+0C6D", "U+0C6E", "U+0C6F">>,
      <<"U+0CE6", "U+0CE7", "U+0CE8", "U+0CE9", "U+0CEA", "U+0CEB", "U+0CEC", "U+0CED", "U+0CEE", "U+0CEF">>,
      <<"U+0D66", "U+0D67", "U+0D68", "U+0D69", "U+0D6A", "U+0D6B", "U+0D6C", "U+0D6D", "U+0D6E", "U+0D6F">>,
      <<"U+0DE6", "U+0DE7", "U+0DE8", "U+0DE9", "U+0DEA", "U+0DEB", "U+0DEC", "U+0DED", "U+0DEE", "U+0DEF">>,
      <<"U+0E50", "U+0E51", "U+0E52", "U+0E53", "U+0E54", "U+0E55", "U+0E56", "U+0E57", "U+0E58", "U+0E59">>,
      <<"U+0ED0", "U+0ED1", "U+0ED2", "U+0ED3", "U+0ED4", "U+0ED5", "U+0ED6", "U+0ED7", "U+0ED8", "U+0ED9">>,
      <<"U+0F20", "U+0F21", "U+0F22", "U+0F23", "U+0F24", "U+0F25", "U+0F26", "U+0F27", "U+0F28", "U+0F29">>,
      <<"U+1040", "U+1041", "U+1042", "U+1043", "U+1044", "U+1045", "U+1046", "U+1047", "U+1048", "U+1049">>,
      <<"U+1090", "U+1091", "U+1092", "U+1093", "U+1094", "U+1095", "U+1096", "U+1097", "U+1098", "U+1099">>,
      <<"U+17E0", "U+17E1", "U+17E2", "U+17E3", "U+17E4", "U+17E5", "U+17E6", "U+17E7", "U+17E8", "U+17E9">>,
      <<"U+1810", "U+1811", "U+1812", "U+1813", "U+1814", "U+1815", "U+1816", "U+1817", "U+1818", "U+1819">>,
      <<"U+1946", "U+1947", "U+1948", "U+1949", "U+194A", "U+194B", "U+194C", "U+194D", "U+194E", "U+194F">>,
      <<"U+19D0", "U+19D1", "U+19D2", "U+19D3", "U+19D4", "U+19D5", "U+19D6", "U+19D7", "U+19D8", "U+19D9">>,
      <<"U+1A80", "U+1A81", "U+1A82", "U+1A83", "U+1A84", "U+1A85", "U+1A86", "U+1A87", "U+1A88", "U+1A89">>,
      <<"U+1A90", "U+1A91", "U+1A92", "U+1A93", "U+1A94", "U+1A95", "U+1A96", "U+1A97", "U+1A98", "U+1A99">>,
      <<"U+1B50", "U+1B51", "U+1B52", "U+1B53", "U+1B54", "U+1B55", "U+1B56", "U+1B57", "U+1B58", "U+1B59">>,
      <<"U+1BB0", "U+1BB1", "U+1BB2", "U+1BB3", "U+1BB4", "U+1BB5", "U+1BB6", "U+1BB7", "U+1BB8", "U+1BB9">>,
      <<"U+1C40", "U+1C41", "U+1C42", "U+1C43", "U+1C44", "U+1C45", "U+1C46", "U+1C47", "U+1C48", "U+1C49">>,
      <<"U+1C50", "U+1C51", "U+1C52", "U+1C53", "U+1C54", "U+1C55", "U+1C56", "U+1C57", "U+1C58", "U+1C59">>,
      <<"U+A620", "U+A621", "U+A622", "U+A623", "U+A624", "U+A625", "U+A626", "U+A627", "U+A628", "U+A629">>,
      <<"U+A8D0", "U+A8D1", "U+A8D2", "U+A8D3", "U+A8D4", "U+A8D5", "U+A8D6", "U+A8D7", "U+A8D8", "U+A8D9">>,
      <<"U+A900", "U+A901", "U+A902", "U+A903", "U+A904", "U+A905", "U+A906", "U+A907", "U+A908", "U+A909">>,
      <<"U+A9D0", "U+A9D1", "U+A9D2", "U+A9D3", "U+A9D4", "U+A9D5", "U+A9D6", "U+A9D7", "U+A9D8", "U+A9D9">>,
      <<"U+A9F0", "U+A9F1", "U+A9F2", "U+A9F3", "U+A9F4", "U+A9F5", "U+A9F6", "U+A9F7", "U+A9F8", "U+A9F9">>,
      <<"U+AA50", "U+AA51", "U+AA52", "U+AA53", "U+AA54", "U+AA55", "U+AA56", "U+AA57", "U+AA58", "U+AA59">>,
      <<"U+ABF0", "U+ABF1", "U+ABF2", "U+ABF3", "U+ABF4", "U+ABF5", "U+ABF6", "U+ABF7", "U+ABF8", "U+ABF9">>,
      <<"U+FF10", "U+FF11", "U+FF12", "U+FF13", "U+FF14", "U+FF15", "U+FF16", "U+FF17", "U+FF18", "U+FF19">>,
      <<"U+104A0", "U+104A1", "U+104A2", "U+104A3", "U+104A4", "U+104A5", "U+104A6", "U+104A7", "U+104A8", "U+104A9">>,
      <<"U+10D30", "U+10D31", "U+10D32", "U+10D33", "U+10D34", "U+10D35", "U+10D36", "U+10D37", "U+10D38", "U+10D39">>,
      <<"U+11066", "U+11067", "U+11068", "U+11069", "U+1106A", "U+1106B", "U+1106C", "U+1106D", "U+1106E", "U+1106F">>,
      <<"U+110F0", "U+110F1", "U+110F2", "U+110F3", "U+110F4", "U+110F5", "U+110F6", "U+110F7", "U+110F8", "U+110F9">>,
      <<"U+11136", "U+11137", "U+11138", "U+11139", "U+1113A", "U+1113B", "U+1113C", "U+1113D", "U+1113E", "U+1113F">>,
      <<"U+111D0", "U+111D1", "U+111D2", "U+111D3", "U+111D4", "U+111D5", "U+111D6", "U+111D7", "U+111D8", "U+111D9">>,
      <<"U+112F0", "U+112F1", "U+112F2", "U+112F3", "U+112F4", "U+112F5", "U+112F6", "U+112F7", "U+112F8", "U+112F9">>,
      <<"U+11450", "U+11451", "U+11452", "U+11453", "U+11454", "U+11455", "U+11456", "U+11457", "U+11458", "U+11459">>,
      <<"U+114D0", "U+114D1", "U+114D2", "U+114D3", "U+114D4", "U+114D5", "U+114D6", "U+114D7", "U+114D8", "U+114D9">>,
      <<"U+11650", "U+11651", "U+11652", "U+11653", "U+11654", "U+11655", "U+11656", "U+11657", "U+11658", "U+11659">>,
      <<"U+116C0", "U+116C1", "U+116C2", "U+116C3", "U+116C4", "U+116C5", "U+116C6", "U+116C7", "U+116C8", "U+116C9">>,
      <<"U+11730", "U+11731", "U+11732", "U+11733", "U+11734", "U+11735", "U+11736", "U+11737", "U+11738", "U+11739">>,
      <<"U+118E0", "U+118E1", "U+118E2", "U+118E3", "U+118E4", "U+118E5", "U+118E6", "U+118E7", "U+118E8", "U+118E9">>,
      <<"U+11950", "U+11951", "U+11952", "U+11953", "U+11954", "U+11955", "U+11956", "U+11957", "U+11958", "U+11959">>,
      <<"U+11C50", "U+11C51", "U+11C52", "U+11C53", "U+11C54", "U+11C55", "U+11C56", "U+11C57", "U+11C58", "U+11C59">>,
      <<"U+11D50", "U+11D51", "U+11D52", "U+11D53", "U+11D54", "U+11D55", "U+11D56", "U+11D57", "U+11D58", "U+11D59">>,
      <<"U+11DA0", "U+11DA1", "U+11DA2", "U+11DA3", "U+11DA4", "U+11DA5", "U+11DA6", "U+11DA7", "U+11DA8", "U+11DA9">>,
      <<"U+16A60", "U+16A61", "U+16A62", "U+16A63", "U+16A64", "U+16A65", "U+16A66", "U+16A67", "U+16A68", "U+16A69">>,
      <<"U+16AC0", "U+16AC1", "U+16AC2", "U+16AC3", "U+16AC4", "U+16AC5", "U+16AC6", "U+16AC7", "U+16AC8", "U+16AC9">>,
      <<"U+16B50", "U+16B51", "U+16B52", "U+16B53", "U+16B54", "U+16B55", "U+16B56", "U+16B57", "U+16B58", "U+16B59">>,
      <<"U+1D7CE", "U+1D7CF", "U+1D7D0", "U+1D7D1", "U+1D7D2", "U+1D7D3", "U+1D7D4", "U+1D7D5", "U+1D7D6", "U+1D7D7">>,
      <<"U+1D7D8", "U+1D7D9", "U+1D7DA", "U+1D7DB", "U+1D7DC", "U+1D7DD", "U+1D7DE", "U+1D7DF", "U+1D7E0", "U+1D7E1">>,
      <<"U+1D7E2", "U+1D7E3", "U+1D7E4", "U+1D7E5", "U+1D7E6", "U+1D7E7", "U+1D7E8", "U+1D7E9", "U+1D7EA", "U+1D7EB">>,
      <<"U+1D7EC", "U+1D7ED", "U+1D7EE", "U+1D7EF", "U+1D7F0", "U+1D7F1", "U+1D7F2", "U+1D7F3", "U+1D7F4", "U+1D7F5">>,
      <<"U+1D7F6", "U+1D7F7", "U+1D7F8", "U+1D7F9", "U+1D7FA", "U+1D7FB", "U+1D7FC", "U+1D7FD", "U+1D7FE", "U+1D7FF">>,
      <<"U+1E140", "U+1E141", "U+1E142", "U+1E143", "U+1E144", "U+1E145", "U+1E146", "U+1E147", "U+1E148", "U+1E149">>,
      <<"U+1E2F0", "U+1E2F1", "U+1E2F2", "U+1E2F3", "U+1E2F4", "U+1E2F5", "U+1E2F6", "U+1E2F7", "U+1E2F8", "U+1E2F9">>,
      <<"U+1E950", "U+1E951", "U+1E952", "U+1E953", "U+1E954", "U+1E955", "U+1E956", "U+1E957", "U+1E958", "U+1E959">>,
      <<"U+1FBF0", "U+1FBF1", "U+1FBF2", "U+1FBF3", "U+1FBF4", "U+1FBF5", "U+1FBF6", "U+1FBF7", "U+1FBF8", "U+1FBF9">>>>
DecimalDigitChars ==
    {DecimalDigitRuns[r][i] : r \in 1..Len(DecimalDigitRuns), i \in 1..10}
DecimalDigitValues ==
    [c \in DecimalDigitChars |->
        (CHOOSE i \in 1..10 : \E r \in 1..Len(DecimalDigitRuns) : DecimalDigitRuns[r][i] = c) - 1]
IsDigit(c) == c \in DecimalDigitChars
DigitValue(c) == DecimalDigitValues[c]

RECURSIVE Decimal(_)
\* str(n) for n >= 0
Decimal(n) ==
    IF n < 10 THEN <<DigitChars[n + 1]>>
    ELSE Append(Decimal(n \div 10), DigitChars[(n % 10) + 1])

Zeros(k) == [i \in 1..k |-> "0"]

\* "{:d}".format(n): no width
FormatPlain(n) ==
    (IF n < 0 THEN <<"-">> ELSE <<>>) \o Decimal(IF n < 0 THEN -n ELSE n)

\* "{:056d}".format(n): the sign comes first and counts in the width
Format056d(n) ==
    LET digits == Decimal(IF n < 0 THEN -n ELSE n)
        sign == IF n < 0 THEN <<"-">> ELSE <<>>
        pad == TokenWidth - Len(sign) - Len(digits)
    IN sign \o Zeros(IF pad > 0 THEN pad ELSE 0) \o digits

\* the value of the first k characters of a digit string
RECURSIVE DigitsValueUpTo(_, _)
DigitsValueUpTo(s, k) ==
    IF k = 0 THEN 0
    ELSE 10 * DigitsValueUpTo(s, k - 1) + DigitValue(s[k])
DigitsValue(s) == DigitsValueUpTo(s, Len(s))

\* the characters int() drops around the number: tab, line feed, vertical
\* tab, form feed, carriage return, space, next line (U+0085), no-break
\* space (U+00A0) and the Unicode spaces beyond Latin-1
WhitespaceChars ==
    {"\t", "\n", "", "\f", "\r", " ", "", " ",
     "U+1680", "U+2000", "U+2001", "U+2002", "U+2003", "U+2004", "U+2005", "U+2006", "U+2007",
     "U+2008", "U+2009", "U+200A", "U+2028", "U+2029", "U+202F", "U+205F", "U+3000"}
IsSpace(c) == c \in WhitespaceChars

\* int(s): whitespace around is dropped; then an optional sign, then digits,
\* with single "_" allowed between two digits; more than MaxStrDigits
\* digits are refused (ValueError)
StripBlanks(s) ==
    LET lead == CHOOSE k \in 0..Len(s) :
                    (\A i \in 1..k : IsSpace(s[i])) /\ (k = Len(s) \/ ~IsSpace(s[k + 1]))
        trail == CHOOSE k \in 0..Len(s) :
                    /\ \A i \in (Len(s) - k + 1)..Len(s) : IsSpace(s[i])
                    /\ k = Len(s) \/ ~IsSpace(s[Len(s) - k])
    IN SubSeq(s, lead + 1, Len(s) - trail)
Unsigned(s) == IF Len(s) > 0 /\ s[1] \in {"-", "+"} THEN Tail(s) ELSE s
IntParses(s) ==
    LET body == Unsigned(StripBlanks(s))
    IN /\ Len(body) > 0
       /\ IsDigit(body[1]) /\ IsDigit(body[Len(body)])
       /\ \A i \in 1..Len(body) : IsDigit(body[i]) \/ body[i] = "_"
       /\ \A i \in 1..(Len(body) - 1) : ~(body[i] = "_" /\ body[i + 1] = "_")
       /\ Len(SelectSeq(body, IsDigit)) <= MaxStrDigits
IntValue(s) ==
    LET t == StripBlanks(s)
        magnitude == DigitsValue(SelectSeq(Unsigned(t), IsDigit))
    IN IF t[1] = "-" THEN -magnitude ELSE magnitude

Min(a, b) == IF a < b THEN a ELSE b

\* s[a:b] for 0 <= a and 0 <= b
PySlice(s, a, b) == SubSeq(s, a + 1, Min(b, Len(s)))

(***************************************************************************)
(* LogEvent                                                                *)
(***************************************************************************)
\* LogEvent.__init__ over a batch: the i-th event of the batch takes the
\* class counter's value eid + i - 1 (NewEventsSameId: the counter is read
\* once for the batch)
NewEventsSameId(log_events, t, eid) ==
    [i \in 1..Len(log_events) |->
        [ingestionTime |-> t,
         timestamp |-> log_events[i].timestamp,
         message |-> log_events[i].message,
         eventId |-> eid]]
NewEvents(log_events, t, eid) ==
    [i \in 1..Len(log_events) |->
        [ingestionTime |-> t,
         timestamp |-> log_events[i].timestamp,
         message |-> log_events[i].message,
         eventId |-> eid + i - 1]]

to_filter_dict(e) ==
    [eventId |-> Decimal(e.eventId), ingestionTime |-> e.ingestionTime,
     message |-> e.message, timestamp |-> e.timestamp]

to_response_dict(e) ==
    [ingestionTime |-> e.ingestionTime, message |-> e.message,
     timestamp |-> e.timestamp]

(***************************************************************************)
(* LogStream                                                               *)
(***************************************************************************)
NewLogStream(region, log_group, name, t, ids) ==
    [arn |-> [region |-> region, id |-> ids, log_group |-> log_group,
              log_stream |-> name],
     creationTime |-> t,
     firstEventTimestamp |-> None,
     lastEventTimestamp |-> None,
     lastIngestionTime |-> None,
     logStreamName |-> name,
     storedBytes |-> 0,
     uploadSequenceToken |-> 0,
     events |-> <<>>]

\* len(log_event["message"]): the number of characters of the str
MessageLen(m) == Len(m)

RECURSIVE SumLens(_)
SumLens(log_events) ==
    IF Len(log_events) = 0 THEN 0
    ELSE MessageLen(log_events[1].message) + SumLens(Tail(log_events))

\* the counter of put_log_events, line 105; the first one does not count
\* past 1
NextSequenceTokenStuck(n) == IF n = 0 THEN 1 ELSE n
NextSequenceToken(n) == n + 1

\* LogStream.put_log_events: the stream afterwards and the returned token
StreamPutLogEvents(stream, log_events, t, eid) ==
    LET after ==
            [stream EXCEPT
                !.lastIngestionTime = Some(t),
                !.storedBytes = @ + SumLens(log_events),
                !.events = @ \o NewEvents(log_events, t, eid),
                !.uploadSequenceToken = NextSequenceToken(@)]
    IN [stream |-> after, value |-> Format056d(after.uploadSequenceToken)]

\* filter_func of get_log_events and filter_log_events: a bound of 0 (or
\* None) is falsy and does not bound
filter_func(e, start_time, end_time) ==
    IF start_time # 0 /\ e.timestamp < start_time THEN FALSE
    ELSE IF end_time # 0 /\ e.timestamp > end_time THEN FALSE
    ELSE TRUE

\* sorted(..., key=timestamp): stable, equal timestamps keep their order
RECURSIVE SortedByTimestamp(_)
InsertByTimestamp(sorted, e) ==
    LET n == Cardinality({i \in 1..Len(sorted) : sorted[i].timestamp <= e.timestamp})
    IN SubSeq(sorted, 1, n) \o <<e>> \o SubSeq(sorted, n + 1, Len(sorted))
SortedByTimestamp(s) ==
    IF Len(s) = 0 THEN <<>>
    ELSE InsertByTimestamp(SortedByTimestamp(SubSeq(s, 1, Len(s) - 1)), s[Len(s)])

FilteredSorted(events, start_time, end_time) ==
    SortedByTimestamp(SelectSeq(events, LAMBDA e : filter_func(e, start_time, end_time)))

\* get_index_and_direction_from_token: token[0], int(token[2:])
get_index_and_direction_from_token(token) ==
    IF ~token.present THEN [ok |-> TRUE, direction |-> None, index |-> 0]
    ELSE LET s == token.v
             rest == SubSeq(s, 3, Len(s))
         IN IF Len(s) >= 1 /\ IntParses(rest)
            THEN [ok |-> TRUE, direction |-> Some(s[1]), index |-> IntValue(rest)]
            ELSE [ok |-> FALSE]

InvalidParameter == [status |-> "InvalidParameterException"]

Page(page, b, f) ==
    [status |-> "ok", events |-> page,
     backwardToken |-> <<"b", "/">> \o Format056d(b),
     forwardToken |-> <<"f", "/">> \o Format056d(f)]

\* Window with the page cut one event short
WindowShort(events, start_index, end_index) ==
    LET final_index == Len(events) - 1
        start_clamped == IF start_index < 0 THEN 0 ELSE start_index
        end_clamped == IF end_index > final_index THEN final_index ELSE end_index
    IN IF start_index >= 0 /\ start_index > final_index
       THEN Page(<<>>, final_index, final_index)
       ELSE IF end_index <= final_index /\ end_index < 0
       THEN Page(<<>>, 0, 0)
       ELSE LET page == PySlice(events, start_clamped, end_clamped)
            IN Page([i \in 1..Len(page) |-> to_response_dict(page[i])],
                    start_clamped, end_clamped)

\* Window with the tokens of the empty pages following the request
WindowAdvancing(events, start_index, end_index) ==
    LET final_index == Len(events) - 1
        start_clamped == IF start_index < 0 THEN 0 ELSE start_index
        end_clamped == IF end_index > final_index THEN final_index ELSE end_index
    IN IF start_index >= 0 /\ start_index > final_index
       THEN Page(<<>>, start_index, start_index)
       ELSE IF end_index <= final_index /\ end_index < 0
       THEN Page(<<>>, end_index, end_index)
       ELSE LET page == PySlice(events, start_clamped, end_clamped + 1)
            IN Page([i \in 1..Len(page) |-> to_response_dict(page[i])],
                    start_clamped, end_clamped)

\* the two clamps and the page of get_log_events, lines 162-188
Window(events, start_index, end_index) ==
    LET final_index == Len(events) - 1
        start_clamped == IF start_index < 0 THEN 0 ELSE start_index
        end_clamped == IF end_index > final_index THEN final_index ELSE end_index
    IN IF start_index >= 0 /\ start_index > final_index
       THEN Page(<<>>, final_index, final_index)
       ELSE IF end_index <= final_index /\ end_index < 0
       THEN Page(<<>>, 0, 0)
       ELSE LET page == PySlice(events, start_clamped, end_clamped + 1)
            IN Page([i \in 1..Len(page) |-> to_response_dict(page[i])],
                    start_clamped, end_clamped)

\* Dispatch with the backward window ending at the token's index
DispatchBackwardInclusive(direction, index, limit, final_index, start_from_head) ==
    IF ~direction.present /\ start_from_head
    THEN [ok |-> TRUE, start |-> 0, end |-> limit - 1]
    ELSE IF ~direction.present
    THEN [ok |-> TRUE, start |-> final_index - (limit - 1), end |-> final_index]
    ELSE IF direction.v = "f"
    THEN [ok |-> TRUE, start |-> index + 1, end |-> (index + 1) + (limit - 1)]
    ELSE IF direction.v = "b"
    THEN [ok |-> TRUE, start |-> index - (limit - 1), end |-> index]
    ELSE [ok |-> FALSE]

\* Dispatch with the forward window starting at the token's index
DispatchForwardInclusive(direction, index, limit, final_index, start_from_head) ==
    IF ~direction.present /\ start_from_head
    THEN [ok |-> TRUE, start |-> 0, end |-> limit - 1]
    ELSE IF ~direction.present
    THEN [ok |-> TRUE, start |-> final_index - (limit - 1), end |-> final_index]
    ELSE IF direction.v = "f"
    THEN [ok |-> TRUE, start |-> index, end |-> index + (limit - 1)]
    ELSE IF direction.v = "b"
    THEN [ok |-> TRUE, start |-> (index - 1) - (limit - 1), end |-> index - 1]
    ELSE [ok |-> FALSE]

\* Dispatch with start_from_head ignored
DispatchFromHead(direction, index, limit, final_index, start_from_head) ==
    IF ~direction.present
    THEN [ok |-> TRUE, start |-> 0, end |-> limit - 1]
    ELSE IF direction.v = "f"
    THEN [ok |-> TRUE, start |-> index + 1, end |-> (index + 1) + (limit - 1)]
    ELSE IF direction.v = "b"
    THEN [ok |-> TRUE, start |-> (index - 1) - (limit - 1), end |-> index - 1]
    ELSE [ok |-> FALSE]

\* Dispatch with an unknown direction taken for "f"
DispatchNoCheck(direction, index, limit, final_index, start_from_head) ==
    IF ~direction.present /\ start_from_head
    THEN [ok |-> TRUE, start |-> 0, end |-> limit - 1]
    ELSE IF ~direction.present
    THEN [ok |-> TRUE, start |-> final_index - (limit - 1), end |-> final_index]
    ELSE IF direction.v = "b"
    THEN [ok |-> TRUE, start |-> (index - 1) - (limit - 1), end |-> index - 1]
    ELSE [ok |-> TRUE, start |-> index + 1, end |-> (index + 1) + (limit - 1)]
\* the direction dispatch of get_log_events, lines 146-160
Dispatch(direction, index, limit, final_index, start_from_head) ==
    IF ~direction.present /\ start_from_head
    THEN [ok |-> TRUE, start |-> 0, end |-> limit - 1]
    ELSE IF ~direction.present
    THEN [ok |-> TRUE, start |-> final_index - (limit - 1), end |-> final_index]
    ELSE IF direction.v = "f"
    THEN [ok |-> TRUE, start |-> index + 1, end |-> (index + 1) + (limit - 1)]
    ELSE IF direction.v = "b"
    THEN [ok |-> TRUE, start |-> (index - 1) - (limit - 1), end |-> index - 1]
    ELSE [ok |-> FALSE]

\* LogStream.get_log_events
StreamGetLogEvents(stream, start_time, end_time, limit, next_token, start_from_head) ==
    LET events == FilteredSorted(stream.events, start_time, end_time)
        parsed == get_index_and_direction_from_token(next_token)
    IN IF ~parsed.ok THEN InvalidParameter
       ELSE LET w == Dispatch(parsed.direction, parsed.index, limit,
                              Len(events) - 1, start_from_head)
            IN IF ~w.ok THEN InvalidParameter
               ELSE Window(events, w.start, w.end)

Unsupported == [status |-> "NotImplementedError"]
NotFound == [status |-> "ResourceNotFoundException"]
AlreadyExists == [status |-> "ResourceAlreadyExistsException"]

\* LogStream.filter_log_events, lines 204-220 (after the filter_pattern test)
StreamFilterLogEvents(stream, start_time, end_time) ==
    LET events == FilteredSorted(stream.events, start_time, end_time)
    IN [i \in 1..Len(events) |->
           [eventId |-> to_filter_dict(events[i]).eventId,
            ingestionTime |-> events[i].ingestionTime,
            message |-> events[i].message,
            timestamp |-> events[i].timestamp,
            logStreamName |-> stream.logStreamName]]

(***************************************************************************)
(* LogGroup                                                                *)
(***************************************************************************)
\* LogGroup.__init__: "self.tags = tags" keeps the caller's dict object
\* itself, so the field holds the identity of the object, or None
NewLogGroup(region, name, tags, t) ==
    [name |-> name,
     region |-> region,
     arn |-> [region |-> region, log_group |-> name],
     creationTime |-> t,
     tags |-> IF tags.present THEN Some(tags.v.id) ELSE None,
     streams |-> <<>>,
     retentionInDays |-> None]

\* the streams a filter_log_events call selects, in the dict's order
SelectedStreams(group, log_stream_names) ==
    LET chosen == SelectSeq(group.streams,
                     LAMBDA e : log_stream_names = {} \/ e.k \in log_stream_names)
    IN [i \in 1..Len(chosen) |-> chosen[i].v]

RECURSIVE ConcatStreamEvents(_, _, _)
ConcatStreamEvents(streams, start_time, end_time) ==
    IF Len(streams) = 0 THEN <<>>
    ELSE StreamFilterLogEvents(streams[1], start_time, end_time)
         \o ConcatStreamEvents(Tail(streams), start_time, end_time)

\* the events of a filter_log_events call before paging, lines 334-348
InterleaveIgnored(events, interleaved) == events
Interleave(events, interleaved) ==
    IF interleaved THEN SortedByTimestamp(events) ELSE events

\* the page and next token of filter_log_events, lines 350-356
OffsetPageNoCollapse(events, next_token, limit) ==
    LET t == IF next_token.present THEN next_token.v ELSE 0
    IN [events |-> PySlice(events, t, t + limit), nextToken |-> Some(t + limit)]
OffsetPage(events, next_token, limit) ==
    LET t == IF next_token.present THEN next_token.v ELSE 0
    IN [events |-> PySlice(events, t, t + limit),
        nextToken |-> IF t + limit >= Len(events) THEN None ELSE Some(t + limit)]

\* LogGroup.filter_log_events: the filter_pattern test sits in
\* LogStream.filter_log_events, so it is made once per selected stream
GroupFilterLogEvents(group, log_stream_names, start_time, end_time, limit, next_token, filter_pattern, interleaved) ==
    LET streams == SelectedStreams(group, log_stream_names)
    IN IF Len(streams) > 0 /\ Len(filter_pattern) > 0 THEN Unsupported
       ELSE LET events == Interleave(
                    ConcatStreamEvents(streams, start_time, end_time), interleaved)
                page == OffsetPage(events, next_token, limit)
            IN [status |-> "ok",
                events |-> page.events,
                nextToken |-> page.nextToken,
                searchedLogStreams |->
                    [i \in 1..Len(streams) |->
                        [logStreamName |-> streams[i].logStreamName,
                         searchedCompletely |-> TRUE]]]

\* "log_stream_name in self.streams"
StreamExistsNever(group, log_stream_name) == FALSE
StreamExists(group, log_stream_name) == Has(group.streams, log_stream_name)

(***************************************************************************)
(* Descriptions, retention and tags                                        *)
(***************************************************************************)
\* the characters of the names the model uses, and their code points
NameChars(name) ==
    CASE name = "g1" -> <<"g", "1">>
      [] name = "s1" -> <<"s", "1">>
      [] name = "s2" -> <<"s", "2">>
CodePoint(c) ==
    CASE c = "1" -> 49 [] c = "2" -> 50 [] c = "g" -> 103 [] c = "s" -> 115
      [] c = "x" -> 120

\* name.startswith(prefix)
StartsWith(name, prefix) ==
    /\ Len(prefix) <= Len(NameChars(name))
    /\ SubSeq(NameChars(name), 1, Len(prefix)) = prefix

\* a < b for two str: by the first character that differs, else by length
StrLess(a, b) ==
    \/ \E i \in 1..Min(Len(a), Len(b)) :
          /\ SubSeq(a, 1, i - 1) = SubSeq(b, 1, i - 1)
          /\ CodePoint(a[i]) < CodePoint(b[i])
    \/ Len(a) < Len(b) /\ SubSeq(b, 1, Len(a)) = a

\* min and max of the timestamps of a list of events that is not empty
MinTimestamp(events) ==
    CHOOSE t \in {events[i].timestamp : i \in 1..Len(events)} :
        \A i \in 1..Len(events) : t <= events[i].timestamp
MaxTimestamp(events) ==
    CHOOSE t \in {events[i].timestamp : i \in 1..Len(events)} :
        \A i \in 1..Len(events) : t >= events[i].timestamp

\* LogStream._update with the first timestamp taken for both fields
UpdateFirstOnly(stream) ==
    [stream EXCEPT
        !.firstEventTimestamp =
            IF Len(stream.events) > 0 THEN Some(stream.events[1].timestamp) ELSE None,
        !.lastEventTimestamp =
            IF Len(stream.events) > 0 THEN Some(stream.events[1].timestamp) ELSE None]
\* LogStream._update
Update(stream) ==
    [stream EXCEPT
        !.firstEventTimestamp =
            IF Len(stream.events) > 0 THEN Some(MinTimestamp(stream.events)) ELSE None,
        !.lastEventTimestamp =
            IF Len(stream.events) > 0 THEN Some(MaxTimestamp(stream.events)) ELSE None]

\* LogStream.to_describe_dict of a stream that _update has refreshed; a key
\* the dict does not hold is None, a key it holds is Some(value)
StreamDescription(stream) ==
    LET some == Len(stream.events) > 0
    IN [arn |-> stream.arn,
        creationTime |-> stream.creationTime,
        logStreamName |-> stream.logStreamName,
        storedBytes |-> stream.storedBytes,
        firstEventTimestamp |-> IF some THEN Some(stream.firstEventTimestamp) ELSE None,
        lastEventTimestamp |-> IF some THEN Some(stream.lastEventTimestamp) ELSE None,
        lastIngestionTime |-> IF some THEN Some(stream.lastIngestionTime) ELSE None,
        uploadSequenceToken |->
            IF some THEN Some(Decimal(stream.uploadSequenceToken)) ELSE None]

\* sorter of describe_log_streams: item[0] or item[1].get("lastEventTimestamp", 0)
SorterLess(order_by, x, y) ==
    IF order_by = "logStreamName"
    THEN StrLess(NameChars(x.k), NameChars(y.k))
    ELSE LET key(d) == IF d.lastEventTimestamp.present
                       THEN d.lastEventTimestamp.v.v ELSE 0
         IN key(x.v) < key(y.v)

\* sorted(items, key=sorter, reverse=descending): stable both ways
RECURSIVE SortedStreams(_, _, _)
SortedStreams(items, order_by, descending) ==
    IF Len(items) = 0 THEN <<>>
    ELSE LET sorted == SortedStreams(SubSeq(items, 1, Len(items) - 1), order_by,
                                     descending)
             e == items[Len(items)]
             n == Cardinality({i \in 1..Len(sorted) :
                      IF descending THEN ~SorterLess(order_by, sorted[i], e)
                      ELSE ~SorterLess(order_by, e, sorted[i])})
         IN SubSeq(sorted, 1, n) \o <<e>> \o SubSeq(sorted, n + 1, Len(sorted))

\* the group after describe_log_streams: to_describe_dict refreshes the
\* streams whose names start with the prefix
GroupAfterDescribe(group, log_stream_name_prefix) ==
    [group EXCEPT !.streams =
        [i \in 1..Len(group.streams) |->
            IF StartsWith(group.streams[i].k, log_stream_name_prefix)
            THEN [k |-> group.streams[i].k, v |-> Update(group.streams[i].v)]
            ELSE group.streams[i]]]

\* LogGroup.describe_log_streams: the page and the new token
GroupDescribeLogStreams(group, descending, limit, log_stream_name_prefix, next_token, order_by) ==
    LET after == GroupAfterDescribe(group, log_stream_name_prefix)
        chosen == SelectSeq(after.streams,
                      LAMBDA e : StartsWith(e.k, log_stream_name_prefix))
        items == [i \in 1..Len(chosen) |->
                     [k |-> chosen[i].k, v |-> StreamDescription(chosen[i].v)]]
        sorted == SortedStreams(items, order_by, descending)
        t == IF next_token.present THEN next_token.v ELSE 0
        page == PySlice(sorted, t, t + limit)
    IN [status |-> "ok",
        logStreams |-> [i \in 1..Len(page) |-> page[i].v],
        nextToken |-> IF t + limit >= Len(sorted) THEN None ELSE Some(t + limit)]

RECURSIVE SumStoredBytes(_)
SumStoredBytes(streams) ==
    IF Len(streams) = 0 THEN 0
    ELSE streams[1].v.storedBytes + SumStoredBytes(Tail(streams))

\* "if self.retentionInDays": None and 0 are falsy
RetentionShownAlways(retentionInDays) == retentionInDays.present
RetentionShown(retentionInDays) == retentionInDays.present /\ retentionInDays.v # 0

\* LogGroup.to_describe_dict; retentionInDays is None when the dict has no
\* such key
GroupDescription(group) ==
    [arn |-> group.arn,
     creationTime |-> group.creationTime,
     logGroupName |-> group.name,
     metricFilterCount |-> 0,
     storedBytes |-> SumStoredBytes(group.streams),
     retentionInDays |-> IF RetentionShown(group.retentionInDays)
                         THEN Some(group.retentionInDays.v) ELSE None]

\* LogGroup.set_retention_policy
SetRetentionPolicy(group, retention_in_days) ==
    [group EXCEPT !.retentionInDays = retention_in_days]

\* A dict of tags is a function from its keys.  A dict is an object: the
\* heap maps the identity of each dict a group holds to its items, and a
\* dict handed to a call is [id, items].  Two groups that were given the
\* same object hold the same identity.
NoTags == [k \in {} |-> ""]

\* the identity of a dict made during a call
FreshId(heap) ==
    CHOOSE i \in 1..(Cardinality(DOMAIN heap) + 1) :
        i \notin DOMAIN heap /\ \A j \in 1..(i - 1) : j \in DOMAIN heap

\* the heap once a reference to the dict d is kept
Store(heap, d) ==
    [i \in DOMAIN heap \cup {d.id} |-> IF i \in DOMAIN heap THEN heap[i] ELSE d.items]

\* dict.update
DictUpdate(a, b) ==
    [k \in DOMAIN a \cup DOMAIN b |-> IF k \in DOMAIN b THEN b[k] ELSE a[k]]

\* "if self.tags": None and the empty dict are falsy
TagsTruthy(tags, heap) == tags.present /\ DOMAIN heap[tags.v] # {}

\* LogGroup.list_tags
ListTags(group, heap) ==
    IF TagsTruthy(group.tags, heap) THEN heap[group.tags.v] ELSE NoTags

\* LogGroup.tag: the group's dict is updated in place, or the given dict is
\* kept when there are no tags
Tag(group, tags, heap) ==
    IF TagsTruthy(group.tags, heap)
    THEN [group |-> group,
          heap |-> [heap EXCEPT ![group.tags.v] = DictUpdate(@, Store(heap, tags)[tags.id])]]
    ELSE [group |-> [group EXCEPT !.tags = Some(tags.id)],
          heap |-> Store(heap, tags)]

\* LogGroup.untag: the comprehension makes a new dict
Untag(group, tags_to_remove, heap) ==
    IF TagsTruthy(group.tags, heap)
    THEN LET old == heap[group.tags.v]
             made == [id |-> FreshId(heap),
                      items |-> [k \in DOMAIN old \ tags_to_remove |-> old[k]]]
         IN [group |-> [group EXCEPT !.tags = Some(made.id)],
             heap |-> Store(heap, made)]
    ELSE [group |-> group, heap |-> heap]

(***************************************************************************)
(* LogsBackend: one per region                                             *)
(***************************************************************************)
Regions == {"us-east-1", "us-west-2"}
GroupNames == {"g1"}
StreamNames == {"s1", "s2"}

NewBackend(region) == [region_name |-> region, groups |-> <<>>]

\* the dicts some group of some region still holds; a dict that no group
\* holds any more is gone
Collect(heap, bk) ==
    LET tagsOf(r) == {bk[r].groups[k].v.tags : k \in 1..Len(bk[r].groups)}
        held == {tags.v : tags \in {x \in UNION {tagsOf(r) : r \in DOMAIN bk} : x.present}}
    IN [i \in DOMAIN heap \cap held |-> heap[i]]

\* "log_group_name in self.groups"
GroupExists(r, log_group_name) == Has(backends[r].groups, log_group_name)
Group(r, log_group_name) == Get(backends[r].groups, log_group_name)

SetGroup(r, log_group_name, group) ==
    [backends EXCEPT ![r].groups = Put(@, log_group_name, group)]

Call(op, r, g, s, args, result) ==
    [op |-> op, region |-> r, group |-> g, stream |-> s, args |-> args,
     result |-> result]

Idle == [op |-> "idle"]
NoSession == [kind |-> "none"]

(***************************************************************************)
(* Inputs                                                                  *)
(***************************************************************************)
Timestamps == 1..MaxTs
\* the values unix_time_millis() returns
Times == 1..MaxClock
\* one message per timestamp; the message of timestamp 1 holds a character
\* of two UTF-8 bytes
MessageFor(t) == IF t = 1 THEN <<"h", "é">> ELSE <<"a">>
LogEventInputs == {[timestamp |-> t, message |-> MessageFor(t)] : t \in Timestamps}
Batches == UNION {[1..n -> LogEventInputs] : n \in 0..MaxBatch}
\* the dicts a caller hands over: one made for the call, or one that a
\* group holds (handed over before, or returned by list_tags_log_group)
NewDicts(contents) == {[id |-> FreshId(dicts), items |-> c] : c \in contents}
HeldDicts == {[id |-> i, items |-> dicts[i]] : i \in DOMAIN dicts}
TagInputs == {None} \cup {Some(d) : d \in NewDicts({[env |-> "test"]}) \cup HeldDicts}
SequenceTokens == {None, Some(<<"4", "2">>)}
Limits == 0..MaxLimit
\* time bounds of a call: 0 is "no bound"
StartTimes == {0, MaxTs}
EndTimes == {0, 1}
Patterns == {<<>>, <<"E", "R", "R">>}
StreamKeys == Regions \X GroupNames \X StreamNames
\* the region the calls of Spec address
HomeRegions == {"us-east-1"}

ReadOps == {"get_log_events", "filter_log_events"}

(***************************************************************************)
(* The state after import: one empty LogsBackend per region                *)
(***************************************************************************)
Init ==
    /\ backends = [r \in Regions |-> NewBackend(r)]
    /\ event_id = 0
    /\ log_ids = 0
    /\ ret = Idle
    /\ sess = NoSession
    /\ put_calls = [key \in StreamKeys |-> 0]
    /\ dicts = <<>>

\* CreateLogGroup with the group stored before the name is tested
CreateLogGroupClobbers(r, g, tags, t) ==
    /\ ret' = Call("create_log_group", r, g, "", [tags |-> tags],
                   IF GroupExists(r, g) THEN AlreadyExists ELSE [status |-> "ok"])
    /\ backends' = SetGroup(r, g, NewLogGroup(r, g, tags, t))
    /\ dicts' = Collect(IF tags.present THEN Store(dicts, tags.v) ELSE dicts, backends')
    /\ sess' = NoSession
    /\ UNCHANGED <<event_id, log_ids, put_calls>>

\* LogsBackend.create_log_group; t is what unix_time_millis() returns
CreateLogGroup(r, g, tags, t) ==
    /\ IF GroupExists(r, g)
       THEN /\ ret' = Call("create_log_group", r, g, "", [tags |-> tags], AlreadyExists)
            /\ UNCHANGED <<backends, dicts>>
       ELSE /\ ret' = Call("create_log_group", r, g, "", [tags |-> tags], [status |-> "ok"])
            /\ backends' = SetGroup(r, g, NewLogGroup(r, g, tags, t))
            /\ dicts' = IF tags.present THEN Store(dicts, tags.v) ELSE dicts
    /\ sess' = NoSession
    /\ UNCHANGED <<event_id, log_ids, put_calls>>

\* LogsBackend.ensure_log_group: nothing is done, and nothing raised, when
\* the group exists
EnsureLogGroup(r, g, tags, t) ==
    /\ ret' = Call("ensure_log_group", r, g, "", [tags |-> tags], [status |-> "ok"])
    /\ IF GroupExists(r, g)
       THEN UNCHANGED <<backends, dicts>>
       ELSE /\ backends' = SetGroup(r, g, NewLogGroup(r, g, tags, t))
            /\ dicts' = IF tags.present THEN Store(dicts, tags.v) ELSE dicts
    /\ sess' = NoSession
    /\ UNCHANGED <<event_id, log_ids, put_calls>>

\* LogsBackend.delete_log_group
DeleteLogGroup(r, g) ==
    /\ IF ~GroupExists(r, g)
       THEN /\ ret' = Call("delete_log_group", r, g, "", [none |-> TRUE], NotFound)
            /\ UNCHANGED <<backends, dicts>>
       ELSE /\ ret' = Call("delete_log_group", r, g, "", [none |-> TRUE], [status |-> "ok"])
            /\ backends' = [backends EXCEPT ![r].groups = Del(@, g)]
            /\ dicts' = Collect(dicts, backends')
    /\ sess' = NoSession
    /\ UNCHANGED <<event_id, log_ids, put_calls>>

\* LogsBackend.create_log_stream, LogGroup.create_log_stream, LogStream.__init__
CreateLogStream(r, g, s, t) ==
    LET call(result) == Call("create_log_stream", r, g, s, [none |-> TRUE], result)
    IN /\ sess' = NoSession
       /\ IF ~GroupExists(r, g)
          THEN /\ ret' = call(NotFound)
               /\ UNCHANGED <<backends, event_id, log_ids, put_calls, dicts>>
          ELSE IF StreamExists(Group(r, g), s)
          THEN /\ ret' = call(AlreadyExists)
               /\ UNCHANGED <<backends, event_id, log_ids, put_calls, dicts>>
          ELSE /\ log_ids < MaxStreams
               /\ ret' = call([status |-> "ok"])
               /\ backends' = SetGroup(r, g,
                       [Group(r, g) EXCEPT
                           !.streams = Put(@, s, NewLogStream(r, g, s, t, log_ids))])
               /\ log_ids' = log_ids + 1
               /\ put_calls' = [put_calls EXCEPT ![<<r, g, s>>] = 0]
               /\ UNCHANGED <<event_id, dicts>>

\* LogsBackend.delete_log_stream, LogGroup.delete_log_stream
DeleteLogStream(r, g, s) ==
    LET call(result) == Call("delete_log_stream", r, g, s, [none |-> TRUE], result)
    IN /\ IF ~GroupExists(r, g) THEN ret' = call(NotFound) /\ UNCHANGED backends
          ELSE IF ~StreamExists(Group(r, g), s)
          THEN ret' = call(NotFound) /\ UNCHANGED backends
          ELSE /\ ret' = call([status |-> "ok"])
               /\ backends' = SetGroup(r, g,
                       [Group(r, g) EXCEPT !.streams = Del(@, s)])
       /\ sess' = NoSession
       /\ UNCHANGED <<event_id, log_ids, put_calls, dicts>>

\* LogsBackend.put_log_events, LogGroup.put_log_events, LogStream.put_log_events
PutLogEvents(r, g, s, log_events, sequence_token, t) ==
    LET args == [log_events |-> log_events, sequence_token |-> sequence_token]
        call(result) == Call("put_log_events", r, g, s, args, result)
    IN /\ sess' = NoSession
       /\ IF ~GroupExists(r, g) \/ ~StreamExists(Group(r, g), s)
          THEN /\ ret' = call(NotFound)
               /\ UNCHANGED <<backends, event_id, log_ids, put_calls, dicts>>
          ELSE LET stream == Get(Group(r, g).streams, s)
                   put == StreamPutLogEvents(stream, log_events, t, event_id)
               IN /\ event_id + Len(log_events) <= MaxEvents
                  /\ put_calls[<<r, g, s>>] < MaxPuts
                  /\ ret' = call([status |-> "ok", value |-> put.value])
                  /\ backends' = SetGroup(r, g,
                          [Group(r, g) EXCEPT !.streams = Put(@, s, put.stream)])
                  /\ event_id' = event_id + Len(log_events)
                  /\ put_calls' = [put_calls EXCEPT ![<<r, g, s>>] = @ + 1]
                  /\ UNCHANGED <<log_ids, dicts>>

\* LogsBackend.get_log_events, LogGroup.get_log_events, LogStream.get_log_events
GetLogEventsResult(r, g, s, start_time, end_time, limit, next_token, start_from_head) ==
    IF ~GroupExists(r, g) \/ ~StreamExists(Group(r, g), s) THEN NotFound
    ELSE StreamGetLogEvents(Get(Group(r, g).streams, s), start_time, end_time,
                            limit, next_token, start_from_head)

GetLogEventsCall(r, g, s, start_time, end_time, limit, next_token, start_from_head) ==
    Call("get_log_events", r, g, s,
         [start_time |-> start_time, end_time |-> end_time, limit |-> limit,
          next_token |-> next_token, start_from_head |-> start_from_head],
         GetLogEventsResult(r, g, s, start_time, end_time, limit, next_token,
                            start_from_head))

\* a fresh get_log_events call: it starts a paging chain of the client
GetLogEvents(r, g, s, start_time, end_time, limit, next_token, start_from_head) ==
    LET call == GetLogEventsCall(r, g, s, start_time, end_time, limit, next_token,
                                 start_from_head)
    IN /\ ret' = call
       /\ sess' = [kind |-> "get", via |-> <<>>, before |-> Idle,
                   origin |-> IF next_token.present THEN "token"
                              ELSE IF start_from_head THEN "head" ELSE "tail",
                   acc |-> IF call.result.status = "ok"
                           THEN call.result.events ELSE <<>>]
       /\ UNCHANGED <<backends, event_id, log_ids, put_calls, dicts>>

\* LogsBackend.filter_log_events, LogGroup.filter_log_events
FilterLogEventsResult(r, g, log_stream_names, start_time, end_time, limit, next_token, filter_pattern, interleaved) ==
    IF ~GroupExists(r, g) THEN NotFound
    ELSE GroupFilterLogEvents(Group(r, g), log_stream_names, start_time, end_time,
                              limit, next_token, filter_pattern, interleaved)

FilterLogEventsCall(r, g, log_stream_names, start_time, end_time, limit, next_token, filter_pattern, interleaved) ==
    Call("filter_log_events", r, g, "",
         [log_stream_names |-> log_stream_names, start_time |-> start_time,
          end_time |-> end_time, limit |-> limit, next_token |-> next_token,
          filter_pattern |-> filter_pattern, interleaved |-> interleaved],
         FilterLogEventsResult(r, g, log_stream_names, start_time, end_time,
                               limit, next_token, filter_pattern, interleaved))

\* a fresh filter_log_events call: it starts a paging chain of the client
FilterLogEvents(r, g, log_stream_names, start_time, end_time, limit, next_token, filter_pattern, interleaved) ==
    LET call == FilterLogEventsCall(r, g, log_stream_names, start_time, end_time,
                                    limit, next_token, filter_pattern, interleaved)
    IN /\ ret' = call
       /\ sess' = [kind |-> "filter", via |-> <<>>, before |-> Idle,
                   origin |-> IF next_token.present THEN "token" ELSE "head",
                   acc |-> IF call.result.status = "ok"
                           THEN call.result.events ELSE <<>>]
       /\ UNCHANGED <<backends, event_id, log_ids, put_calls, dicts>>

\* sorted(groups, key=creationTime, reverse=True): stable
RECURSIVE SortedGroups(_)
SortedGroups(groups) ==
    IF Len(groups) = 0 THEN <<>>
    ELSE LET sorted == SortedGroups(SubSeq(groups, 1, Len(groups) - 1))
             e == groups[Len(groups)]
             n == Cardinality({i \in 1..Len(sorted) :
                      sorted[i].creationTime >= e.creationTime})
         IN SubSeq(sorted, 1, n) \o <<e>> \o SubSeq(sorted, n + 1, Len(sorted))

\* LogsBackend.describe_log_groups; a prefix of None is ""
DescribeLogGroupsResult(r, limit, log_group_name_prefix, next_token) ==
    LET prefix == IF log_group_name_prefix.present THEN log_group_name_prefix.v
                  ELSE <<>>
        chosen == SelectSeq(backends[r].groups, LAMBDA e : StartsWith(e.k, prefix))
        groups == SortedGroups([i \in 1..Len(chosen) |-> GroupDescription(chosen[i].v)])
        t == IF next_token.present THEN next_token.v ELSE 0
    IN [status |-> "ok",
        logGroups |-> PySlice(groups, t, t + limit),
        nextToken |-> IF t + limit >= Len(groups) THEN None ELSE Some(t + limit)]

DescribeLogGroups(r, limit, log_group_name_prefix, next_token) ==
    /\ ret' = Call("describe_log_groups", r, "", "",
                   [limit |-> limit, log_group_name_prefix |-> log_group_name_prefix,
                    next_token |-> next_token],
                   DescribeLogGroupsResult(r, limit, log_group_name_prefix, next_token))
    /\ sess' = NoSession
    /\ UNCHANGED <<backends, event_id, log_ids, put_calls, dicts>>

\* LogsBackend.describe_log_streams, LogGroup.describe_log_streams
DescribeLogStreams(r, g, descending, limit, log_stream_name_prefix, next_token, order_by) ==
    LET args == [descending |-> descending, limit |-> limit,
                 log_stream_name_prefix |-> log_stream_name_prefix,
                 next_token |-> next_token, order_by |-> order_by]
        call(result) == Call("describe_log_streams", r, g, "", args, result)
    IN /\ IF ~GroupExists(r, g)
          THEN /\ ret' = call(NotFound)
               /\ UNCHANGED backends
          ELSE /\ ret' = call(GroupDescribeLogStreams(Group(r, g), descending, limit,
                                  log_stream_name_prefix, next_token, order_by))
               /\ backends' = SetGroup(r, g,
                                  GroupAfterDescribe(Group(r, g), log_stream_name_prefix))
       /\ sess' = NoSession
       /\ UNCHANGED <<event_id, log_ids, put_calls, dicts>>

\* Reset that leaves the groups in place
ResetKeepsGroups(r) ==
    /\ ret' = Call("reset", r, "", "", [none |-> TRUE], [status |-> "ok"])
    /\ sess' = NoSession
    /\ UNCHANGED <<backends, event_id, log_ids, put_calls, dicts>>

\* LogsBackend.reset: the backend is initialised again; the class counters
\* of LogEvent and LogStream are not part of it
Reset(r) ==
    /\ backends' = [backends EXCEPT ![r] = NewBackend(r)]
    /\ ret' = Call("reset", r, "", "", [none |-> TRUE], [status |-> "ok"])
    /\ sess' = NoSession
    /\ put_calls' = [key \in StreamKeys |-> IF key[1] = r THEN 0 ELSE put_calls[key]]
    /\ dicts' = Collect(dicts, backends')
    /\ UNCHANGED <<event_id, log_ids>>

\* LogsBackend.put_retention_policy
PutRetentionPolicy(r, g, retention_in_days) ==
    LET call(result) == Call("put_retention_policy", r, g, "",
                             [retention_in_days |-> retention_in_days], result)
    IN /\ IF ~GroupExists(r, g)
          THEN /\ ret' = call(NotFound)
               /\ UNCHANGED backends
          ELSE /\ ret' = call([status |-> "ok"])
               /\ backends' = SetGroup(r, g,
                      SetRetentionPolicy(Group(r, g), Some(retention_in_days)))
       /\ sess' = NoSession
       /\ UNCHANGED <<event_id, log_ids, put_calls, dicts>>

\* LogsBackend.delete_retention_policy
DeleteRetentionPolicy(r, g) ==
    LET call(result) == Call("delete_retention_policy", r, g, "", [none |-> TRUE], result)
    IN /\ IF ~GroupExists(r, g)
          THEN /\ ret' = call(NotFound)
               /\ UNCHANGED backends
          ELSE /\ ret' = call([status |-> "ok"])
               /\ backends' = SetGroup(r, g, SetRetentionPolicy(Group(r, g), None))
       /\ sess' = NoSession
       /\ UNCHANGED <<event_id, log_ids, put_calls, dicts>>

\* ListTagsLogGroup with no tags for a group that is absent
ListTagsLogGroupLenient(r, g) ==
    /\ ret' = Call("list_tags_log_group", r, g, "", [none |-> TRUE],
                   [status |-> "ok",
                    tags |-> IF GroupExists(r, g) THEN ListTags(Group(r, g), dicts)
                             ELSE NoTags])
    /\ sess' = NoSession
    /\ UNCHANGED <<backends, event_id, log_ids, put_calls, dicts>>

\* LogsBackend.list_tags_log_group
ListTagsLogGroup(r, g) ==
    /\ ret' = Call("list_tags_log_group", r, g, "", [none |-> TRUE],
                   IF ~GroupExists(r, g) THEN NotFound
                   ELSE [status |-> "ok", tags |-> ListTags(Group(r, g), dicts)])
    /\ sess' = NoSession
    /\ UNCHANGED <<backends, event_id, log_ids, put_calls, dicts>>

\* LogsBackend.tag_log_group
TagLogGroup(r, g, tags) ==
    LET call(result) == Call("tag_log_group", r, g, "", [tags |-> tags], result)
    IN /\ IF ~GroupExists(r, g)
          THEN /\ ret' = call(NotFound)
               /\ UNCHANGED <<backends, dicts>>
          ELSE LET tagged == Tag(Group(r, g), tags, dicts)
               IN /\ ret' = call([status |-> "ok"])
                  /\ backends' = SetGroup(r, g, tagged.group)
                  /\ dicts' = Collect(tagged.heap, backends')
       /\ sess' = NoSession
       /\ UNCHANGED <<event_id, log_ids, put_calls>>

\* LogsBackend.untag_log_group
UntagLogGroup(r, g, tags) ==
    LET call(result) == Call("untag_log_group", r, g, "", [tags |-> tags], result)
    IN /\ IF ~GroupExists(r, g)
          THEN /\ ret' = call(NotFound)
               /\ UNCHANGED <<backends, dicts>>
          ELSE LET untagged == Untag(Group(r, g), tags, dicts)
               IN /\ ret' = call([status |-> "ok"])
                  /\ backends' = SetGroup(r, g, untagged.group)
                  /\ dicts' = Collect(untagged.heap, backends')
       /\ sess' = NoSession
       /\ UNCHANGED <<event_id, log_ids, put_calls>>

(***************************************************************************)
(* Spec: the calls of one region's registry.  A read leaves the registry   *)
(* as it is, so a read made right after another read reaches nothing that  *)
(* the same read made in its place does not reach; reads are made after    *)
(* writes only.                                                            *)
(***************************************************************************)
Next ==
    \/ \E r \in HomeRegions, g \in GroupNames, tags \in TagInputs, t \in Times :
           CreateLogGroup(r, g, tags, t)
    \/ \E r \in HomeRegions, g \in GroupNames : DeleteLogGroup(r, g)
    \/ \E r \in HomeRegions, g \in GroupNames, s \in StreamNames, t \in Times :
           CreateLogStream(r, g, s, t)
    \/ \E r \in HomeRegions, g \in GroupNames, s \in StreamNames :
           DeleteLogStream(r, g, s)
    \/ \E r \in HomeRegions, g \in GroupNames, s \in StreamNames,
          log_events \in Batches, sequence_token \in SequenceTokens, t \in Times :
           PutLogEvents(r, g, s, log_events, sequence_token, t)
    \/ \E r \in HomeRegions, g \in GroupNames, s \in StreamNames,
          limit \in Limits, start_from_head \in BOOLEAN :
           /\ ret.op \notin ReadOps
           /\ GetLogEvents(r, g, s, 0, 0, limit, None, start_from_head)
    \/ \E r \in HomeRegions, g \in GroupNames, names \in SUBSET StreamNames,
          filter_pattern \in Patterns, interleaved \in BOOLEAN :
           /\ ret.op \notin ReadOps
           /\ FilterLogEvents(r, g, names, 0, 0, MaxEvents, None, filter_pattern,
                              interleaved)

Spec == Init /\ [][Next]_vars

(***************************************************************************)
(* SpecPager: get_log_events paging over one stream.  The initial states   *)
(* are the registries reached by create_log_group, create_log_stream and   *)
(* one put_log_events of a batch of up to MaxView events; the client makes *)
(* one fresh call and then follows the tokens it is given.                 *)
(***************************************************************************)
PositionMessage(i) == <<"m">> \o Decimal(i)
ViewBatches ==
    UNION {{[i \in 1..n |-> [timestamp |-> ts[i], message |-> PositionMessage(i)]] :
                ts \in [1..n -> Timestamps]} : n \in 0..MaxView}

\* the stream after create_log_stream and, for a batch that is not empty,
\* one put_log_events
StreamHolding(r, g, s, ids, batch, eid) ==
    IF Len(batch) = 0 THEN NewLogStream(r, g, s, 1, ids)
    ELSE StreamPutLogEvents(NewLogStream(r, g, s, 1, ids), batch, 1, eid).stream

PagerRegion == "us-east-1"
PagerGroup == "g1"
PagerStream == "s1"

InitPager ==
    \E batch \in ViewBatches :
        /\ backends =
             [r \in Regions |->
                IF r = PagerRegion
                THEN [NewBackend(r) EXCEPT !.groups =
                        Put(<<>>, PagerGroup,
                            [NewLogGroup(r, PagerGroup, None, 1) EXCEPT !.streams =
                                Put(<<>>, PagerStream,
                                    StreamHolding(r, PagerGroup, PagerStream, 0,
                                                  batch, 0))])]
                ELSE NewBackend(r)]
        /\ event_id = Len(batch)
        /\ log_ids = 1
        /\ ret = Idle
        /\ sess = NoSession
        /\ put_calls = [key \in StreamKeys |->
                          IF key = <<PagerRegion, PagerGroup, PagerStream>>
                             /\ Len(batch) > 0
                          THEN 1 ELSE 0]
        /\ dicts = <<>>

\* tokens a client may supply: none, the tokens get_log_events makes, and
\* strings it does not make
MadeTokens ==
    {<<d, "/">> \o Format056d(i) : d \in {"f", "b"}, i \in (-1)..MaxView}
OtherTokens ==
    {<<>>, <<"f">>, <<"b">>, <<"f", "/">>, <<"x", "/", "1">>, <<"x">>,
     <<"f", "/", "x">>, <<"b", "/", "1", "x">>, <<"f", "/", "-">>,
     <<"f", "/", "1">>, <<"b", "f", "2">>, <<"f", "/", "+", "1">>,
     <<"f", "/", " ", "1">>, <<"b", "/", "1", "_", "0">>, <<"b", "/", "_", "1">>,
     <<"f", "/", "\t", "1">>, <<"b", "/", "1", "\n">>, <<"f", "/", "U+0661">>,
     <<"b", "/", "U+3000", "2">>, <<"f", "/", "U+0416">>}
TokenInputs == {None} \cup {Some(tok) : tok \in MadeTokens \cup OtherTokens}

\* the client feeds a token of the last page back, with the same limit and
\* time range
Follow(d) ==
    /\ ret.op = "get_log_events"
    /\ ret.result.status = "ok"
    /\ LET a == ret.args
           token == IF d = "f" THEN ret.result.forwardToken
                    ELSE ret.result.backwardToken
           call == GetLogEventsCall(ret.region, ret.group, ret.stream,
                       a.start_time, a.end_time, a.limit, Some(token),
                       a.start_from_head)
           same == sess.via = <<>> \/ sess.via = <<d>>
       IN /\ ret' = call
          /\ sess' = [sess EXCEPT
                        !.via = IF same THEN <<d>> ELSE <<"f", "b">>,
                        !.before = ret,
                        !.acc = IF ~same THEN <<>>
                                ELSE IF d = "f" THEN @ \o call.result.events
                                ELSE call.result.events \o @]
    /\ UNCHANGED <<backends, event_id, log_ids, put_calls, dicts>>

FollowForward == Follow("f")
FollowBackward == Follow("b")

NextPager ==
    \/ \E start_time \in StartTimes, end_time \in EndTimes, limit \in Limits,
          next_token \in TokenInputs, start_from_head \in BOOLEAN :
           /\ ret = Idle
           /\ GetLogEvents(PagerRegion, PagerGroup, PagerStream, start_time,
                           end_time, limit, next_token, start_from_head)
    \/ FollowForward
    \/ FollowBackward

SpecPager == InitPager /\ [][NextPager]_vars

(***************************************************************************)
(* SpecFilter: filter_log_events paging over one group.  The initial       *)
(* states are the registries reached by create_log_group, two              *)
(* create_log_stream in either order and one put_log_events per stream;    *)
(* the client makes one fresh call and then follows the next tokens.       *)
(***************************************************************************)
InitFilter ==
    \E order \in {<<"s1", "s2">>, <<"s2", "s1">>}, b1 \in Batches, b2 \in Batches :
        LET r == PagerRegion
            g == PagerGroup
            batch(s) == IF s = "s1" THEN b1 ELSE b2
            eid(s) == IF s = "s1" THEN 0 ELSE Len(b1)
            stream(i) == StreamHolding(r, g, order[i], i - 1, batch(order[i]),
                                       eid(order[i]))
        IN /\ backends =
                [q \in Regions |->
                   IF q = r
                   THEN [NewBackend(q) EXCEPT !.groups =
                           Put(<<>>, g,
                               [NewLogGroup(q, g, None, 1) EXCEPT !.streams =
                                   Put(Put(<<>>, order[1], stream(1)),
                                       order[2], stream(2))])]
                   ELSE NewBackend(q)]
           /\ event_id = Len(b1) + Len(b2)
           /\ log_ids = 2
           /\ ret = Idle
           /\ sess = NoSession
           /\ put_calls = [key \in StreamKeys |->
                             IF key[1] = r /\ key[2] = g /\ Len(batch(key[3])) > 0
                             THEN 1 ELSE 0]
           /\ dicts = <<>>

\* the most events a group of SpecFilter holds
MaxResult == 2 * MaxBatch
FilterLimits == Limits \cup {MaxResult}
FilterRanges == {<<0, 0>>, <<MaxTs, 0>>, <<0, 1>>}
OffsetTokens == {None, Some(1), Some(MaxResult)}

\* the client feeds the next token of the last page back, with the same
\* arguments otherwise
FollowNextToken ==
    /\ ret.op = "filter_log_events"
    /\ ret.result.status = "ok"
    /\ ret.result.nextToken.present
    /\ LET a == ret.args
           call == FilterLogEventsCall(ret.region, ret.group, a.log_stream_names,
                       a.start_time, a.end_time, a.limit, ret.result.nextToken,
                       a.filter_pattern, a.interleaved)
       IN /\ ret' = call
          /\ sess' = [sess EXCEPT
                        !.via = <<"n">>,
                        !.before = ret,
                        !.acc = @ \o call.result.events]
    /\ UNCHANGED <<backends, event_id, log_ids, put_calls, dicts>>

NextFilter ==
    \/ \E names \in SUBSET StreamNames, range \in FilterRanges,
          limit \in FilterLimits, next_token \in OffsetTokens,
          interleaved \in BOOLEAN :
           /\ ret = Idle
           /\ FilterLogEvents(PagerRegion, PagerGroup, names, range[1], range[2],
                              limit, next_token, <<>>, interleaved)
    \/ FollowNextToken

SpecFilter == InitFilter /\ [][NextFilter]_vars

(***************************************************************************)
(* SpecAdmin: every operation of one region's registry, on one group name  *)
(* and one stream name, with the retention policy, the tags, the           *)
(* descriptions and reset.  The operations that change nothing are made    *)
(* after an operation that may change something.                           *)
(***************************************************************************)
AdminStreams == {"s1"}
RetentionDays == {0, 7}
TagUpdates == NewDicts({[env |-> "prod", team |-> "a"]}) \cup HeldDicts
UntagKeys == {{"env"}}
GroupPrefixes == {None, Some(<<"x">>)}
StreamPrefixes == {<<>>, <<"s", "2">>}
OrderBys == {"logStreamName", "LastEventTime"}
BadTokens == {Some(<<"x", "/", "1">>)}
PureOps == ReadOps \cup {"describe_log_groups", "list_tags_log_group"}

NextAdmin ==
    \/ \E r \in HomeRegions, g \in GroupNames, tags \in TagInputs, t \in Times :
           CreateLogGroup(r, g, tags, t)
    \/ \E r \in HomeRegions, g \in GroupNames, tags \in TagInputs, t \in Times :
           EnsureLogGroup(r, g, tags, t)
    \/ \E r \in HomeRegions, g \in GroupNames : DeleteLogGroup(r, g)
    \/ \E r \in HomeRegions : Reset(r)
    \/ \E r \in HomeRegions, g \in GroupNames, s \in AdminStreams, t \in Times :
           CreateLogStream(r, g, s, t)
    \/ \E r \in HomeRegions, g \in GroupNames, s \in AdminStreams :
           DeleteLogStream(r, g, s)
    \/ \E r \in HomeRegions, g \in GroupNames, s \in AdminStreams,
          log_events \in Batches, t \in Times :
           PutLogEvents(r, g, s, log_events, None, t)
    \/ \E r \in HomeRegions, g \in GroupNames, days \in RetentionDays :
           PutRetentionPolicy(r, g, days)
    \/ \E r \in HomeRegions, g \in GroupNames : DeleteRetentionPolicy(r, g)
    \/ \E r \in HomeRegions, g \in GroupNames, tags \in TagUpdates :
           TagLogGroup(r, g, tags)
    \/ \E r \in HomeRegions, g \in GroupNames, keys \in UntagKeys :
           UntagLogGroup(r, g, keys)
    \/ \E r \in HomeRegions, g \in GroupNames, descending \in BOOLEAN,
          prefix \in StreamPrefixes, order_by \in OrderBys :
           DescribeLogStreams(r, g, descending, MaxStreams, prefix, None, order_by)
    \/ \E r \in HomeRegions, g \in GroupNames :
           /\ ret.op \notin PureOps
           /\ ListTagsLogGroup(r, g)
    \/ \E r \in HomeRegions, prefix \in GroupPrefixes :
           /\ ret.op \notin PureOps
           /\ DescribeLogGroups(r, 1, prefix, None)
    \/ \E r \in HomeRegions, g \in GroupNames, s \in AdminStreams,
          next_token \in {None} \cup BadTokens :
           /\ ret.op \notin PureOps
           /\ GetLogEvents(r, g, s, 0, 0, MaxLimit, next_token, TRUE)
    \/ \E r \in HomeRegions, g \in GroupNames, filter_pattern \in Patterns :
           /\ ret.op \notin PureOps
           /\ FilterLogEvents(r, g, {}, 0, 0, MaxEvents, None, filter_pattern, FALSE)

SpecAdmin == Init /\ [][NextAdmin]_vars

(***************************************************************************)
(* SpecRegions: the registries of two regions side by side, with one group *)
(* name and one stream name each; streams and events are created, deleted  *)
(* and read back in both.                                                  *)
(***************************************************************************)
NextRegions ==
    \/ \E r \in Regions, g \in GroupNames, t \in Times : CreateLogGroup(r, g, None, t)
    \/ \E r \in Regions, g \in GroupNames : DeleteLogGroup(r, g)
    \/ \E r \in Regions : Reset(r)
    \/ \E r \in Regions, g \in GroupNames, s \in AdminStreams, t \in Times :
           CreateLogStream(r, g, s, t)
    \/ \E r \in Regions, g \in GroupNames, s \in AdminStreams :
           DeleteLogStream(r, g, s)
    \/ \E r \in Regions, g \in GroupNames, s \in AdminStreams,
          log_events \in Batches, t \in Times :
           PutLogEvents(r, g, s, log_events, None, t)
    \/ \E r \in Regions, g \in GroupNames :
           DescribeLogStreams(r, g, FALSE, MaxStreams, <<>>, None, "logStreamName")
    \/ \E r \in Regions, g \in GroupNames :
           /\ ret.op \notin PureOps
           /\ FilterLogEvents(r, g, {}, 0, 0, MaxEvents, None, <<>>, FALSE)

SpecRegions == Init /\ [][NextRegions]_vars

(***************************************************************************)
(* SpecTags: the groups of two regions and their tags.  A caller hands a   *)
(* dict it has just made, or one that a group of either region holds, so   *)
(* two groups can hold the same dict object.                               *)
(***************************************************************************)
TagContents == {NoTags, [env |-> "test"], [team |-> "a"]}
TagObjects == NewDicts(TagContents) \cup HeldDicts
RemovedKeys == {{"env"}, {"env", "team"}}

NextTags ==
    \/ \E r \in Regions, g \in GroupNames, t \in Times,
          tags \in {None} \cup {Some(d) : d \in TagObjects} :
           CreateLogGroup(r, g, tags, t)
    \/ \E r \in Regions, g \in GroupNames, t \in Times,
          tags \in {None} \cup {Some(d) : d \in TagObjects} :
           EnsureLogGroup(r, g, tags, t)
    \/ \E r \in Regions, g \in GroupNames : DeleteLogGroup(r, g)
    \/ \E r \in Regions : Reset(r)
    \/ \E r \in Regions, g \in GroupNames, tags \in TagObjects :
           TagLogGroup(r, g, tags)
    \/ \E r \in Regions, g \in GroupNames, keys \in RemovedKeys :
           UntagLogGroup(r, g, keys)
    \/ \E r \in Regions, g \in GroupNames :
           /\ ret.op \notin PureOps
           /\ ListTagsLogGroup(r, g)

SpecTags == Init /\ [][NextTags]_vars

(***************************************************************************)
(* Vocabulary of the properties                                            *)
(***************************************************************************)
IsGet == ret.op = "get_log_events"
IsFilter == ret.op = "filter_log_events"
Ok == ret.result.status = "ok"
CalledGroupExists == Has(backends[ret.region].groups, ret.group)
CalledStreamExists ==
    CalledGroupExists
    /\ Has(Get(backends[ret.region].groups, ret.group).streams, ret.stream)
CalledStream == Get(Get(backends[ret.region].groups, ret.group).streams, ret.stream)

\* an event lies in the time range of the call; a bound of 0 does not bound
InRange(e, a) ==
    /\ a.start_time = 0 \/ e.timestamp >= a.start_time
    /\ a.end_time = 0 \/ e.timestamp <= a.end_time

\* the events of a sequence that lie in the range, ascending by timestamp
\* (events of one timestamp in the order of the sequence), by rank
AscendingInRange(events, a) ==
    LET kept == SelectSeq(events, LAMBDA e : InRange(e, a))
        Before(j, i) ==
            \/ kept[j].timestamp < kept[i].timestamp
            \/ kept[j].timestamp = kept[i].timestamp /\ j < i
        Rank(i) == 1 + Cardinality({j \in 1..Len(kept) : Before(j, i)})
    IN [k \in 1..Len(kept) |-> kept[CHOOSE i \in 1..Len(kept) : Rank(i) = k]]

\* V of a get_log_events call: the view in the form of the response
ViewOfCall ==
    LET v == AscendingInRange(CalledStream.events, ret.args)
    IN [k \in 1..Len(v) |->
           [ingestionTime |-> v[k].ingestionTime, message |-> v[k].message,
            timestamp |-> v[k].timestamp]]

TokenDirection(tok) == tok[1]
TokenIndex(tok) == IntValue(SubSeq(tok, 3, Len(tok)))
BothTokensAt(result, i) ==
    /\ TokenDirection(result.backwardToken) = "b"
    /\ TokenDirection(result.forwardToken) = "f"
    /\ TokenIndex(result.backwardToken) = i
    /\ TokenIndex(result.forwardToken) = i

\* a chain that began without a token at the head and went forward only
ForwardChainFromHead ==
    /\ IsGet /\ sess.kind = "get"
    /\ sess.origin = "head"
    /\ sess.via \in {<<>>, <<"f">>}

(***************************************************************************)
(* C2: forward paging is complete and gap-free.  In a chain that began     *)
(* without a token at the head and followed forward tokens only, with      *)
(* limit L >= 1 over a view V of n >= 1 events: the page of each call is   *)
(* the slice of V that starts where the pages before it ended (at a        *)
(* multiple of L, or at n) and holds L events or what is left of V; the    *)
(* forward token of a page that is not empty carries the index of its last *)
(* event; after the slice that holds V[n-1] the page is empty; the pages   *)
(* so far, put together, are a prefix of V.                                *)
(***************************************************************************)
C2_ForwardPaging ==
    (ForwardChainFromHead /\ ret.args.limit >= 1 /\ Len(ViewOfCall) >= 1) =>
        LET V == ViewOfCall
            n == Len(V)
            L == ret.args.limit
            page == ret.result.events
            p == Len(sess.acc) - Len(page)
        IN /\ Ok
           /\ p % L = 0 \/ p = n
           /\ page = SubSeq(V, p + 1, Min(p + L, n))
           /\ sess.acc = SubSeq(V, 1, Min(p + L, n))
           /\ page # <<>> =>
                /\ TokenDirection(ret.result.forwardToken) = "f"
                /\ TokenIndex(ret.result.forwardToken) = p + Len(page) - 1
           /\ p = n => page = <<>>

\* the chain has gone past the end of a view that took more than one page
C2_Witness ==
    /\ ForwardChainFromHead /\ ret.args.limit >= 1
    /\ sess.via = <<"f">>
    /\ Len(ViewOfCall) = MaxView
    /\ Len(ViewOfCall) > ret.args.limit
    /\ sess.acc = ViewOfCall
    /\ ret.result.events = <<>>

(***************************************************************************)
(* C3 as stated: for any stream and any limit, a forward token whose index *)
(* is >= final_index gives an empty page with both tokens at final_index,  *)
(* and feeding its forward token back gives the same result; a backward    *)
(* token whose index is <= 0 gives an empty page with both tokens at 0,    *)
(* and feeding its backward token back gives the same result.              *)
(***************************************************************************)
TokenOfCall(call) == call.args.next_token.v
AtEnd(call, final_index) ==
    /\ call.op = "get_log_events" /\ call.args.next_token.present
    /\ call.result.status = "ok"
    /\ TokenDirection(TokenOfCall(call)) = "f"
    /\ TokenIndex(TokenOfCall(call)) >= final_index
AtStart(call) ==
    /\ call.op = "get_log_events" /\ call.args.next_token.present
    /\ call.result.status = "ok"
    /\ TokenDirection(TokenOfCall(call)) = "b"
    /\ TokenIndex(TokenOfCall(call)) <= 0

BoundaryPages(limits) ==
    (IsGet /\ CalledStreamExists /\ ret.args.limit \in limits) =>
        LET final_index == Len(ViewOfCall) - 1
        IN /\ AtEnd(ret, final_index) =>
                /\ ret.result.events = <<>>
                /\ BothTokensAt(ret.result, final_index)
           /\ (sess.via = <<"f">> /\ AtEnd(sess.before, final_index)) =>
                ret.result = sess.before.result
           /\ AtStart(ret) =>
                /\ ret.result.events = <<>>
                /\ BothTokensAt(ret.result, 0)
           /\ (sess.via = <<"b">> /\ AtStart(sess.before)) =>
                ret.result = sess.before.result

C3_Original == BoundaryPages(Limits)

(***************************************************************************)
(* C3 amended: the same, for any limit L >= 1.  (With limit 0 and an empty *)
(* view a backward token of index 0 gives both tokens at final_index,      *)
(* which is -1.)                                                           *)
(***************************************************************************)
C3_BoundaryIdempotent == BoundaryPages(Limits \ {0})

\* a boundary token of an empty page was fed back, at the end of a view
\* that holds events
C3_Witness ==
    /\ IsGet /\ ret.args.limit >= 1
    /\ sess.via = <<"f">>
    /\ Len(ViewOfCall) >= 2
    /\ AtEnd(sess.before, Len(ViewOfCall) - 1)
    /\ ret.result = sess.before.result
    /\ ret.result.events = <<>>

(***************************************************************************)
(* C4: a call without a token and with start_from_head = false, on a view  *)
(* of n >= 1 events with limit L >= 1, returns the last min(L, n) events   *)
(* of the view in ascending order, the backward token at n - min(L, n)     *)
(* and the forward token at n - 1.                                         *)
(***************************************************************************)
C4_TailPage ==
    (/\ IsGet /\ CalledStreamExists
     /\ ~ret.args.next_token.present /\ ~ret.args.start_from_head
     /\ ret.args.limit >= 1 /\ Len(ViewOfCall) >= 1) =>
        LET V == ViewOfCall
            n == Len(V)
            m == Min(ret.args.limit, n)
        IN /\ Ok
           /\ ret.result.events = SubSeq(V, n - m + 1, n)
           /\ TokenDirection(ret.result.backwardToken) = "b"
           /\ TokenIndex(ret.result.backwardToken) = n - m
           /\ TokenDirection(ret.result.forwardToken) = "f"
           /\ TokenIndex(ret.result.forwardToken) = n - 1

\* a tail page shorter than the view
C4_Witness ==
    /\ IsGet /\ CalledStreamExists /\ Ok
    /\ ~ret.args.next_token.present /\ ~ret.args.start_from_head
    /\ ret.args.limit >= 2
    /\ Len(ViewOfCall) > ret.args.limit
    /\ Len(ret.result.events) = ret.args.limit

(***************************************************************************)
(* C5: a supplied token whose first character is neither "f" nor "b", or   *)
(* whose part after the direction and the spacer is not a decimal integer  *)
(* (the empty token and a lone direction character among them), makes      *)
(* get_log_events fail with InvalidParameter; no page is returned.  The    *)
(* part after the spacer is everything from the third character on.        *)
(***************************************************************************)
\* a decimal integer as int() reads one: whitespace around it, a sign,
\* decimal digits of any script, single underscores between digits
DecimalDigits == DecimalDigitChars
LeadingBlanks(s) ==
    CHOOSE k \in 0..Len(s) :
        (\A i \in 1..k : s[i] \in WhitespaceChars)
        /\ (k = Len(s) \/ s[k + 1] \notin WhitespaceChars)
TrailingBlanks(s) ==
    CHOOSE k \in 0..Len(s) :
        (\A i \in (Len(s) - k + 1)..Len(s) : s[i] \in WhitespaceChars)
        /\ (k = Len(s) \/ s[Len(s) - k] \notin WhitespaceChars)
IsDecimalInteger(s) ==
    \E sign \in {<<>>, <<"-">>, <<"+">>} :
        LET from == LeadingBlanks(s) + Len(sign) + 1
            to == Len(s) - TrailingBlanks(s)
        IN /\ from <= to
           /\ SubSeq(s, from - Len(sign), from - 1) = sign
           /\ s[from] \in DecimalDigits /\ s[to] \in DecimalDigits
           /\ \A i \in from..to :
                \/ s[i] \in DecimalDigits
                \/ s[i] = "_" /\ s[i - 1] \in DecimalDigits /\ s[i + 1] \in DecimalDigits

MalformedToken(tok) ==
    \/ Len(tok) = 0
    \/ tok[1] \notin {"f", "b"}
    \/ ~IsDecimalInteger(SubSeq(tok, 3, Len(tok)))

C5_InvalidToken ==
    (/\ IsGet /\ CalledStreamExists
     /\ ret.args.next_token.present
     /\ MalformedToken(ret.args.next_token.v)) =>
        ret.result = InvalidParameter

\* a token with a numeric index and an unknown direction was refused
C5_Witness ==
    /\ IsGet /\ CalledStreamExists
    /\ ret.args.next_token = Some(<<"x", "/", "1">>)
    /\ ret.result.status = "InvalidParameterException"

(***************************************************************************)
(* C1: whenever the addressed group exists, filter_log_events called with  *)
(* a filter pattern that is not empty fails with NotImplementedError,      *)
(* whatever streams the group holds and whatever stream names are passed.  *)
(***************************************************************************)
C1_PatternUnsupported ==
    (IsFilter /\ CalledGroupExists /\ Len(ret.args.filter_pattern) > 0) =>
        ret.result.status = "NotImplementedError"

(***************************************************************************)
(* C6: the storedBytes of every stream is the sum of the UTF-8 byte        *)
(* lengths of the messages of all events put to it.  (A stream keeps every *)
(* event put to it for as long as it lives.)                               *)
(***************************************************************************)
Utf8Bytes(c) == IF c = "é" THEN 2 ELSE 1

RECURSIVE Utf8Len(_)
Utf8Len(m) == IF Len(m) = 0 THEN 0 ELSE Utf8Bytes(m[1]) + Utf8Len(Tail(m))

RECURSIVE SumUtf8(_)
SumUtf8(events) ==
    IF Len(events) = 0 THEN 0
    ELSE Utf8Len(events[1].message) + SumUtf8(Tail(events))

C6_StoredBytesUtf8 ==
    \A r \in Regions :
        \A i \in 1..Len(backends[r].groups) :
            LET streams == backends[r].groups[i].v.streams
            IN \A j \in 1..Len(streams) :
                  streams[j].v.storedBytes = SumUtf8(streams[j].v.events)

(***************************************************************************)
(* C7: the k-th put_log_events call on a stream since the stream was       *)
(* created returns k as 56 decimal digits, whatever the batch, the         *)
(* sequence token supplied and the calls on other streams; on a stream     *)
(* that exists the call does not fail.                                     *)
(***************************************************************************)
IsPut == ret.op = "put_log_events"

C7_SequenceToken ==
    (IsPut /\ CalledStreamExists) =>
        /\ Ok
        /\ Len(ret.result.value) = TokenWidth
        /\ \A i \in 1..Len(ret.result.value) : ret.result.value[i] \in DecimalDigits
        /\ DigitsValue(ret.result.value)
              = put_calls[<<ret.region, ret.group, ret.stream>>]

\* the second call on a stream, with an empty batch and a sequence token
\* that is not the one the first call returned, after a call on another
\* stream
C7_Witness ==
    /\ IsPut /\ CalledStreamExists /\ Ok
    /\ put_calls[<<ret.region, ret.group, ret.stream>>] = 2
    /\ ret.args.log_events = <<>>
    /\ ret.args.sequence_token.present
    /\ \E s \in StreamNames \ {ret.stream} :
          put_calls[<<ret.region, ret.group, s>>] >= 1

(***************************************************************************)
(* C8: create_log_group of a name the registry holds fails with            *)
(* AlreadyExists, and so does create_log_stream of a name the group holds; *)
(* a delete_log_group (delete_log_stream) that succeeded leaves the name   *)
(* absent, and creating a name that is absent succeeds.                    *)
(***************************************************************************)
HeldGroup(r, g) == Has(backends[r].groups, g)
HeldStream(r, g, s) == HeldGroup(r, g) /\ Has(Get(backends[r].groups, g).streams, s)

HeldGroupAfter(r, g) == Has(backends'[r].groups, g)
HeldStreamAfter(r, g, s) ==
    HeldGroupAfter(r, g) /\ Has(Get(backends'[r].groups, g).streams, s)

C8_Step ==
    LET c == ret'
    IN /\ c.op = "create_log_group" =>
            c.result = IF HeldGroup(c.region, c.group)
                       THEN AlreadyExists ELSE [status |-> "ok"]
       /\ (c.op = "create_log_stream" /\ HeldGroup(c.region, c.group)) =>
            c.result = IF HeldStream(c.region, c.group, c.stream)
                       THEN AlreadyExists ELSE [status |-> "ok"]
       /\ (c.op = "delete_log_group" /\ c.result.status = "ok") =>
            ~HeldGroupAfter(c.region, c.group)
       /\ (c.op = "delete_log_stream" /\ c.result.status = "ok") =>
            ~HeldStreamAfter(c.region, c.group, c.stream)

C8_CreateDelete == [][C8_Step]_vars

\* a group was created again after it and its stream had been deleted
C8_Witness ==
    /\ ret.op = "create_log_group" /\ Ok
    /\ log_ids >= 1
    /\ Get(backends[ret.region].groups, ret.group).streams = <<>>

\* the same for a name that is held: the call failed
C8_WitnessHeld ==
    /\ ret.op = "create_log_stream"
    /\ ret.result = AlreadyExists

(***************************************************************************)
(* Vocabulary of the filter_log_events properties                          *)
(***************************************************************************)
CalledGroup == Get(backends[ret.region].groups, ret.group)

\* the position of a stream in the group's dict
StreamPosition(name) == IndexOf(CalledGroup.streams, name)

\* the streams the call selects
Selected ==
    {name \in Keys(CalledGroup.streams) :
        ret.args.log_stream_names = {} \/ name \in ret.args.log_stream_names}

\* the matching events of a selected stream, as the ids the response gives
MatchingIds(name) ==
    LET events == Get(CalledGroup.streams, name).events
    IN {Decimal(events[i].eventId) :
            i \in {j \in 1..Len(events) : InRange(events[j], ret.args)}}

AllMatchingIds == UNION {MatchingIds(name) : name \in Selected}

(***************************************************************************)
(* C9: a filter_log_events call without a token and with a limit not below *)
(* the number of matching events returns every matching event of the       *)
(* selected streams once; with interleaved = true in ascending order of    *)
(* timestamp across the streams; with interleaved = false stream by stream *)
(* in the order the group holds the streams, the events of one stream      *)
(* together and in ascending order of timestamp.                           *)
(***************************************************************************)
C9_Interleaving ==
    (/\ IsFilter /\ CalledGroupExists /\ Ok
     /\ ~ret.args.next_token.present
     /\ ret.args.limit >= Cardinality(AllMatchingIds)) =>
        LET E == ret.result.events
        IN /\ Len(E) = Cardinality(AllMatchingIds)
           /\ {E[i].eventId : i \in 1..Len(E)} = AllMatchingIds
           /\ \A i \in 1..Len(E) : E[i].eventId \in MatchingIds(E[i].logStreamName)
           /\ \A i \in 1..Len(E), j \in 1..Len(E) :
                i < j =>
                    IF ret.args.interleaved
                    THEN E[i].timestamp <= E[j].timestamp
                    ELSE \/ StreamPosition(E[i].logStreamName)
                               < StreamPosition(E[j].logStreamName)
                         \/ /\ E[i].logStreamName = E[j].logStreamName
                            /\ E[i].timestamp <= E[j].timestamp

\* two streams whose timestamps interleave: the first stream of the group
\* holds the later event, and the interleaved call returns it last
C9_Witness ==
    /\ IsFilter /\ CalledGroupExists /\ Ok
    /\ ~ret.args.next_token.present /\ ret.args.interleaved
    /\ Len(ret.result.events) >= 3
    /\ ret.args.limit >= Cardinality(AllMatchingIds)
    /\ \E i \in 1..Len(ret.result.events), j \in 1..Len(ret.result.events) :
          /\ i < j
          /\ StreamPosition(ret.result.events[i].logStreamName)
                > StreamPosition(ret.result.events[j].logStreamName)
          /\ ret.result.events[i].timestamp < ret.result.events[j].timestamp

(***************************************************************************)
(* C10: offset paging of filter_log_events.  For the result sequence E of  *)
(* the call, of length m, a call with token t (0 when absent) and limit    *)
(* L >= 1 returns E[t : t+L] and the next token t+L, which is none exactly *)
(* when t+L >= m; a chain that began without a token and followed the next *)
(* tokens has returned, put together, the first min(t+L, m) events of E,   *)
(* so all of E in order once the next token is none.                       *)
(***************************************************************************)
\* E: the events of the selected streams in range, stream by stream in the
\* order of the group's dict, in the form of the response; ascending by
\* timestamp across the streams when interleaved
RECURSIVE Flatten(_)
Flatten(seqs) == IF Len(seqs) = 0 THEN <<>> ELSE seqs[1] \o Flatten(Tail(seqs))

ResultSequence ==
    LET chosen == SelectSeq(CalledGroup.streams, LAMBDA e : e.k \in Selected)
        perStream == [i \in 1..Len(chosen) |->
                        LET v == AscendingInRange(chosen[i].v.events, ret.args)
                        IN [k \in 1..Len(v) |->
                               [eventId |-> Decimal(v[k].eventId),
                                ingestionTime |-> v[k].ingestionTime,
                                message |-> v[k].message,
                                timestamp |-> v[k].timestamp,
                                logStreamName |-> chosen[i].k]]]
        all == Flatten(perStream)
    IN IF ret.args.interleaved
       THEN AscendingInRange(all, [start_time |-> 0, end_time |-> 0])
       ELSE all

C10_OffsetPaging ==
    (IsFilter /\ CalledGroupExists /\ Ok /\ ret.args.limit >= 1) =>
        LET E == ResultSequence
            m == Len(E)
            L == ret.args.limit
            t == IF ret.args.next_token.present THEN ret.args.next_token.v ELSE 0
        IN /\ ret.result.events = SubSeq(E, t + 1, Min(t + L, m))
           /\ ret.result.nextToken = IF t + L >= m THEN None ELSE Some(t + L)
           /\ sess.origin = "head" =>
                /\ sess.acc = SubSeq(E, 1, Min(t + L, m))
                /\ ~ret.result.nextToken.present => sess.acc = E

\* a chain of more than one page has returned all of E
C10_Witness ==
    /\ IsFilter /\ CalledGroupExists /\ Ok /\ ret.args.limit >= 1
    /\ sess.origin = "head" /\ sess.via = <<"n">>
    /\ sess.before.args.next_token.present
    /\ ~ret.result.nextToken.present
    /\ Len(ResultSequence) = MaxResult
    /\ sess.acc = ResultSequence

(***************************************************************************)
(* Vocabulary of the description properties                                *)
(***************************************************************************)
\* the description of group g (LogGroup.to_describe_dict), before and
\* after the step
ShownGroup(r, g) == GroupDescription(Get(backends[r].groups, g))
ShownGroupAfter(r, g) == GroupDescription(Get(backends'[r].groups, g))

\* the step is the call ret' of operation op on group g of region r
StepOn(op, r, g) == ret'.op = op /\ ret'.region = r /\ ret'.group = g
StepOk == ret'.result.status = "ok"

RetentionOps == {"put_retention_policy", "delete_retention_policy"}

\* how the description of a group shows its retention policy, step by
\* step; zeroShown says whether a policy of 0 days is shown
RetentionStep(zeroShown) ==
    \A r \in Regions, g \in GroupNames :
        /\ (StepOn("create_log_group", r, g) /\ StepOk) =>
              ShownGroupAfter(r, g).retentionInDays = None
        /\ (StepOn("put_retention_policy", r, g) /\ StepOk) =>
              ShownGroupAfter(r, g).retentionInDays =
                  IF ret'.args.retention_in_days # 0 \/ zeroShown
                  THEN Some(ret'.args.retention_in_days) ELSE None
        /\ (StepOn("delete_retention_policy", r, g) /\ StepOk) =>
              ShownGroupAfter(r, g).retentionInDays = None
        /\ (/\ HeldGroup(r, g) /\ HeldGroupAfter(r, g)
            /\ ~(ret'.op \in RetentionOps /\ ret'.region = r /\ ret'.group = g)) =>
              ShownGroupAfter(r, g).retentionInDays = ShownGroup(r, g).retentionInDays
        /\ HeldGroupAfter(r, g) => ShownGroupAfter(r, g).retentionInDays # Some(0)
        /\ (ret'.op = "describe_log_groups" /\ ret'.region = r) =>
              \A i \in 1..Len(ret'.result.logGroups) :
                  ret'.result.logGroups[i].logGroupName = g =>
                      ret'.result.logGroups[i].retentionInDays
                          = ShownGroupAfter(r, g).retentionInDays

(***************************************************************************)
(* C11 as stated: the description of a group omits retentionInDays exactly *)
(* when no retention policy is in force (the group was just created, or    *)
(* delete_retention_policy came after the last put_retention_policy), and  *)
(* otherwise carries the days of the last put_retention_policy; no other   *)
(* operation changes what is shown.                                        *)
(***************************************************************************)
C11_Original == [][RetentionStep(TRUE)]_vars

(***************************************************************************)
(* C11 amended: the same for a put_retention_policy of at least 1 day; a   *)
(* put_retention_policy of 0 days leaves retentionInDays absent, so the    *)
(* description never shows 0.                                              *)
(***************************************************************************)
C11_Retention == [][RetentionStep(FALSE)]_vars

\* a description that carries the days of a policy, and one made after the
\* policy was set to 0 days
C11_Witness ==
    /\ ret.op = "describe_log_groups" /\ Ok
    /\ Len(ret.result.logGroups) = 1
    /\ ret.result.logGroups[1].retentionInDays = Some(7)

(***************************************************************************)
(* Vocabulary of the event id properties                                   *)
(***************************************************************************)
\* the events the registries bk hold: where each lies and its eventId
EventSlots(bk) ==
    UNION {UNION {UNION {
        {[region |-> r, group |-> bk[r].groups[gi].k,
          stream |-> bk[r].groups[gi].v.streams[si].k, position |-> i,
          id |-> bk[r].groups[gi].v.streams[si].v.events[i].eventId] :
            i \in 1..Len(bk[r].groups[gi].v.streams[si].v.events)} :
        si \in 1..Len(bk[r].groups[gi].v.streams)} :
        gi \in 1..Len(bk[r].groups)} :
        r \in Regions}

SameStream(x, y) ==
    x.region = y.region /\ x.group = y.group /\ x.stream = y.stream

(***************************************************************************)
(* C12: event ids are never shared and never reused.  In every step, over  *)
(* the registries of all regions and through delete_log_stream,            *)
(* delete_log_group and reset: the events held afterwards have distinct    *)
(* ids; an event the step has added has an id that no event had before     *)
(* (it is not below the count of the ids given out so far, which no step   *)
(* lowers and which lies above every id held), and of two events added to  *)
(* a stream in one batch the later one has the larger id.                  *)
(***************************************************************************)
C12_Step ==
    LET before == EventSlots(backends)
        after == EventSlots(backends')
        added == after \ before
    IN /\ event_id' >= event_id
       /\ \A x \in before : x.id < event_id
       /\ \A x \in after : x.id < event_id'
       /\ \A x \in added : x.id >= event_id
       /\ \A x \in after, y \in after : x.id = y.id => x = y
       /\ \A x \in added, y \in added :
             (SameStream(x, y) /\ x.position < y.position) => x.id < y.id
       /\ \A x \in before, y \in added : x.id < y.id

C12_EventIds == [][C12_Step]_vars

\* an event was ingested after every earlier event had been deleted: it
\* is the only event held, and its id is not 0
C12_Witness ==
    /\ IsPut /\ Ok
    /\ Len(ret.args.log_events) = 1
    /\ \E x \in EventSlots(backends) :
          /\ EventSlots(backends) = {x}
          /\ x.id = MaxEvents - 1
          /\ x.region = ret.region

(***************************************************************************)
(* Vocabulary of the region properties                                     *)
(***************************************************************************)
\* what the operations on region a return from here on is computed from:
\* the registry of a, the ARN a stream created next in a is described
\* with, and the eventId an event ingested next in a is returned with
RegionView(bk, lids, eid, a) ==
    [registry |-> bk[a],
     nextArn |-> {StreamDescription(NewLogStream(a, g, s, 1, lids)).arn :
                     g \in GroupNames, s \in StreamNames},
     nextEventId |-> {to_filter_dict(NewEvents(<<e>>, 1, eid)[1]).eventId :
                         e \in LogEventInputs}]

(***************************************************************************)
(* C13: region isolation.  A step that is an operation on one region       *)
(* changes nothing that an operation on another region returns: not the    *)
(* other registry, not the ARN its next stream is described with, not the  *)
(* eventId its next event is returned with.                                *)
(***************************************************************************)
C13_Step ==
    \A a \in Regions :
        ret'.region # a =>
            RegionView(backends', log_ids', event_id', a)
                = RegionView(backends, log_ids, event_id, a)

C13_Isolation == [][C13_Step]_vars

(***************************************************************************)
(* C14: a call that fails with NotFound, AlreadyExists, InvalidParameter   *)
(* or Unsupported changes nothing: the registries (the groups, their       *)
(* streams, tags and retention, the streams' events, storedBytes,          *)
(* lastIngestionTime and uploadSequenceToken) and the two id counters are  *)
(* after the call what they were before it.                                *)
(***************************************************************************)
Failures == {NotFound, AlreadyExists, InvalidParameter, Unsupported}

C14_Step ==
    (ret'.op # "idle" /\ ret'.result \in Failures) =>
        /\ backends' = backends
        /\ dicts' = dicts
        /\ event_id' = event_id
        /\ log_ids' = log_ids

C14_FailureFrame == [][C14_Step]_vars

\* a create_log_group that failed on a group with tags, a retention policy
\* and a stream that holds events
C14_Witness ==
    /\ ret.op = "create_log_group" /\ ret.result = AlreadyExists
    /\ CalledGroup.tags.present
    /\ CalledGroup.retentionInDays.present
    /\ \E i \in 1..Len(CalledGroup.streams) :
          Len(CalledGroup.streams[i].v.events) > 0

\* the other three failures
C14_WitnessInvalid == IsGet /\ ret.result = InvalidParameter
C14_WitnessUnsupported == IsFilter /\ ret.result = Unsupported
C14_WitnessNotFound == IsPut /\ ret.result = NotFound /\ CalledGroupExists

(***************************************************************************)
(* C15: a call of an operation that addresses a group by name fails with   *)
(* NotFound when the registry does not hold the group; delete_log_stream,  *)
(* put_log_events and get_log_events fail with NotFound when the group is  *)
(* held and the named stream is not.                                       *)
(***************************************************************************)
GroupAddressedOps ==
    {"delete_log_group", "create_log_stream", "delete_log_stream",
     "describe_log_streams", "put_log_events", "get_log_events",
     "filter_log_events", "put_retention_policy", "delete_retention_policy",
     "list_tags_log_group", "tag_log_group", "untag_log_group"}
StreamAddressedOps == {"delete_log_stream", "put_log_events", "get_log_events"}

C15_Step ==
    LET c == ret'
    IN /\ (c.op \in GroupAddressedOps /\ ~HeldGroup(c.region, c.group)) =>
            c.result = NotFound
       /\ (/\ c.op \in StreamAddressedOps
           /\ HeldGroup(c.region, c.group)
           /\ ~HeldStream(c.region, c.group, c.stream)) =>
            c.result = NotFound

C15_NotFound == [][C15_Step]_vars

\* a call on a group that a reset has removed, and a call on a stream the
\* group does not hold
C15_Witness ==
    /\ ret.op = "untag_log_group" /\ ret.result = NotFound
    /\ event_id >= 1
C15_WitnessStream ==
    /\ ret.op = "delete_log_stream" /\ ret.result = NotFound
    /\ CalledGroupExists

(***************************************************************************)
(* C16: deletion is transitive and reset is total.  A create_log_group     *)
(* that succeeds, also right after delete_log_group of the same name       *)
(* (where it always succeeds), leaves a group with no streams, storedBytes *)
(* 0 and no retentionInDays in its description, and the tags of the call   *)
(* as its only tags; after reset the registry holds no group, and a        *)
(* create_log_group made next succeeds and a create_log_stream made next   *)
(* does not fail with AlreadyExists.                                       *)
(***************************************************************************)
C16_Step ==
    LET c == ret'
        created == Get(backends'[c.region].groups, c.group)
        again == ret.op \in {"delete_log_group", "reset"} /\ ret.result.status = "ok"
                 /\ c.region = ret.region
    IN /\ (c.op = "create_log_group" /\ again) => c.result.status = "ok"
       /\ (c.op = "create_log_stream" /\ again) => c.result = NotFound
       /\ (c.op = "create_log_group" /\ c.result.status = "ok") =>
            /\ created.streams = <<>>
            /\ GroupDescription(created).storedBytes = 0
            /\ GroupDescription(created).retentionInDays = None
            /\ ListTags(created, dicts') = IF c.args.tags.present
                                            THEN c.args.tags.v.items
                                            ELSE NoTags
       /\ c.op = "reset" => backends'[c.region].groups = <<>>

C16_DeleteReset == [][C16_Step]_vars

\* a group is created again, without tags, after delete_log_group removed
\* it with a stream that had been written to
C16_Witness ==
    /\ ret.op = "create_log_group" /\ Ok
    /\ ~ret.args.tags.present
    /\ event_id >= 1
    /\ \E s \in StreamNames : put_calls[<<ret.region, ret.group, s>>] >= 1
    /\ CalledGroup.streams = <<>>

\* a reset of a registry that held events
C16_WitnessReset ==
    /\ ret.op = "reset"
    /\ event_id >= 1
    /\ backends[ret.region].groups = <<>>

(***************************************************************************)
(* C18: every stream description that describe_log_streams returns has,    *)
(* for a stream that holds events, firstEventTimestamp equal to the least  *)
(* and lastEventTimestamp equal to the greatest timestamp of the events    *)
(* the stream holds, whatever the order they were put in, together with    *)
(* lastIngestionTime and uploadSequenceToken; for a stream that holds no   *)
(* event, also after put_log_events calls with empty batches, it has none  *)
(* of the four fields.                                                     *)
(***************************************************************************)
IsDescribeStreams == ret.op = "describe_log_streams"

C18_Described ==
    (IsDescribeStreams /\ Ok) =>
        \A i \in 1..Len(ret.result.logStreams) :
            LET d == ret.result.logStreams[i]
                events == Get(CalledGroup.streams, d.logStreamName).events
                stamps == {events[j].timestamp : j \in 1..Len(events)}
            IN IF events = <<>>
               THEN /\ ~d.firstEventTimestamp.present
                    /\ ~d.lastEventTimestamp.present
                    /\ ~d.lastIngestionTime.present
                    /\ ~d.uploadSequenceToken.present
               ELSE /\ d.firstEventTimestamp.present
                    /\ d.firstEventTimestamp.v.present
                    /\ d.firstEventTimestamp.v.v \in stamps
                    /\ \A t \in stamps : d.firstEventTimestamp.v.v <= t
                    /\ d.lastEventTimestamp.present
                    /\ d.lastEventTimestamp.v.present
                    /\ d.lastEventTimestamp.v.v \in stamps
                    /\ \A t \in stamps : d.lastEventTimestamp.v.v >= t
                    /\ d.lastIngestionTime.present
                    /\ d.lastIngestionTime.v.present
                    /\ d.uploadSequenceToken.present

\* a stream whose later event has the earlier timestamp, after two
\* put_log_events calls
C18_Witness ==
    /\ IsDescribeStreams /\ Ok
    /\ \E i \in 1..Len(ret.result.logStreams) :
          LET d == ret.result.logStreams[i]
              events == Get(CalledGroup.streams, d.logStreamName).events
          IN /\ Len(events) = 2
             /\ events[1].timestamp > events[2].timestamp
             /\ d.uploadSequenceToken = Some(<<"2">>)
             /\ d.firstEventTimestamp = Some(Some(events[2].timestamp))

\* a stream with no event after a put_log_events call with an empty batch
C18_WitnessEmpty ==
    /\ IsDescribeStreams /\ Ok
    /\ \E i \in 1..Len(ret.result.logStreams) :
          LET d == ret.result.logStreams[i]
              stream == Get(CalledGroup.streams, d.logStreamName)
          IN /\ stream.events = <<>>
             /\ stream.uploadSequenceToken >= 1
             /\ ~d.uploadSequenceToken.present

(***************************************************************************)
(* Vocabulary of the token properties                                      *)
(***************************************************************************)
AllDecimalDigits(s) == \A i \in 1..Len(s) : s[i] \in DecimalDigits

\* the token is the direction character d, then spacers characters, then
\* exactly TokenWidth decimal digits
DigitToken(tok, d, spacers) ==
    /\ Len(tok) = 1 + spacers + TokenWidth
    /\ tok[1] = d
    /\ AllDecimalDigits(SubSeq(tok, 2 + spacers, Len(tok)))

\* the token is d, then "/", then TokenWidth characters: decimal digits, or
\* "-" and decimal digits that make -1
IndexToken(tok, d) ==
    LET rest == SubSeq(tok, 3, Len(tok))
    IN /\ Len(tok) = 2 + TokenWidth
       /\ tok[1] = d
       /\ tok[2] = "/"
       /\ \/ AllDecimalDigits(rest)
          \/ /\ rest[1] = "-"
             /\ AllDecimalDigits(Tail(rest))
             /\ DigitsValue(Tail(rest)) = 1

(***************************************************************************)
(* C17 as stated: every backwardToken and forwardToken that get_log_events *)
(* returns is the direction character ('b', 'f'), then 2 spacer            *)
(* characters, then exactly 56 decimal digits.                             *)
(***************************************************************************)
C17_Original ==
    (IsGet /\ Ok) =>
        /\ DigitToken(ret.result.backwardToken, "b", 2)
        /\ DigitToken(ret.result.forwardToken, "f", 2)

(***************************************************************************)
(* C17 amended: every backwardToken and forwardToken that get_log_events   *)
(* returns is the direction character ('b', 'f'), then the 1 spacer        *)
(* character '/', then exactly 56 characters that are the zero-padded      *)
(* index: 56 decimal digits, except on an empty view, where the index can  *)
(* be -1 and the characters are '-' and 55 decimal digits.  The tokens of  *)
(* a page that is not empty carry the indices of its first and last event  *)
(* in the view.                                                            *)
(***************************************************************************)
C17_TokenForm ==
    (IsGet /\ Ok) =>
        LET b == ret.result.backwardToken
            f == ret.result.forwardToken
            V == ViewOfCall
        IN /\ IndexToken(b, "b")
           /\ IndexToken(f, "f")
           /\ V # <<>> => /\ DigitToken(b, "b", 1) /\ DigitToken(f, "f", 1)
                          /\ TokenIndex(b) \in 0..(Len(V) - 1)
                          /\ TokenIndex(f) \in 0..(Len(V) - 1)
           /\ V = <<>> => TokenIndex(b) \in {-1, 0} /\ TokenIndex(f) \in {-1, 0}
           /\ ret.result.events # <<>> =>
                ret.result.events = SubSeq(V, TokenIndex(b) + 1, TokenIndex(f) + 1)

\* the tokens of a call on an empty view carry -1; the tokens of a page of
\* the last events of a view carry indices above 0
C17_Witness ==
    /\ IsGet /\ Ok
    /\ ViewOfCall = <<>>
    /\ CalledStream.events # <<>>
    /\ TokenIndex(ret.result.forwardToken) = -1
C17_WitnessPage ==
    /\ IsGet /\ Ok
    /\ Len(ret.result.events) = MaxLimit
    /\ TokenIndex(ret.result.backwardToken) = MaxView - MaxLimit
    /\ TokenIndex(ret.result.forwardToken) = MaxView - 1

(***************************************************************************)
(* Vocabulary of the direction flips                                       *)
(***************************************************************************)
\* the last call Q was made with a token of the call before it, P
FollowedCall ==
    /\ IsGet /\ Ok /\ sess.kind = "get"
    /\ sess.via # <<>>
    /\ sess.before.result.status = "ok"
FedForward == ret.args.next_token = Some(sess.before.result.forwardToken)
FedBackward == ret.args.next_token = Some(sess.before.result.backwardToken)

(***************************************************************************)
(* C19: a direction flip returns to the previous page.  With limit L >= 1: *)
(* when a call returned a page P of exactly L events, the call fed with    *)
(* P's forwardToken returned a page Q that is not empty, and the next call *)
(* is fed with Q's backwardToken (same limit and range, stream unchanged), *)
(* that call returns the events and the two tokens of P; the same with     *)
(* backwardToken and forwardToken exchanged.                               *)
(***************************************************************************)
C19_Step ==
    LET P == sess.before
        Q == ret
        R == ret'
        sameArgs == /\ R.op = "get_log_events"
                    /\ R.region = Q.region /\ R.group = Q.group /\ R.stream = Q.stream
                    /\ R.args.limit = Q.args.limit
                    /\ R.args.start_time = Q.args.start_time
                    /\ R.args.end_time = Q.args.end_time
                    /\ backends' = backends
    IN (/\ FollowedCall
        /\ Q.args.limit >= 1
        /\ Len(P.result.events) = Q.args.limit
        /\ Q.result.events # <<>>
        /\ sameArgs) =>
           /\ (FedForward /\ R.args.next_token = Some(Q.result.backwardToken)) =>
                 R.result = P.result
           /\ (FedBackward /\ R.args.next_token = Some(Q.result.forwardToken)) =>
                 R.result = P.result

C19_FlipReturns == [][C19_Step]_vars

\* after a forward step and a backward step the page of L = MaxLimit
\* events is back, and it is not the page in between
C19_Witness ==
    /\ FollowedCall
    /\ ret.args.limit = MaxLimit
    /\ sess.before.args.next_token.present
    /\ TokenDirection(sess.before.args.next_token.v) = "f"
    /\ sess.before.result.events # <<>>
    /\ FedBackward
    /\ Len(ret.result.events) = MaxLimit
    /\ ret.result.events # sess.before.result.events
    /\ TokenIndex(ret.result.forwardToken) + 1
          = TokenIndex(sess.before.result.backwardToken)

\* the same after a backward step and a forward step
C19_WitnessBackward ==
    /\ FollowedCall
    /\ ret.args.limit = MaxLimit
    /\ sess.before.args.next_token.present
    /\ TokenDirection(sess.before.args.next_token.v) = "b"
    /\ sess.before.result.events # <<>>
    /\ FedForward
    /\ Len(ret.result.events) = MaxLimit
    /\ TokenIndex(sess.before.result.forwardToken) + 1
          = TokenIndex(ret.result.backwardToken)

(***************************************************************************)
(* C20: a direction flip at a boundary skips the boundary event.  On a     *)
(* view V with final_index >= 1 and with limit L >= 1: the call fed with   *)
(* the backwardToken of an empty page whose tokens are at final_index      *)
(* returns the window that ends at final_index - 1, so the last event of V *)
(* is not in it; the call fed with the forwardToken of an empty page whose *)
(* tokens are at 0 returns the window that starts at index 1, so the first *)
(* event of V is not in it.                                                *)
(***************************************************************************)
C20_BoundaryFlip ==
    LET V == ViewOfCall
        final_index == Len(V) - 1
        L == ret.args.limit
        page == ret.result.events
        first == IF final_index - L > 0 THEN final_index - L ELSE 0
    IN (/\ FollowedCall
        /\ final_index >= 1 /\ L >= 1
        /\ sess.before.result.events = <<>>) =>
           /\ (BothTokensAt(sess.before.result, final_index) /\ FedBackward) =>
                 /\ page = SubSeq(V, first + 1, final_index)
                 /\ \A i \in 1..Len(page) : page[i] # V[final_index + 1]
                 /\ TokenIndex(ret.result.backwardToken) = first
                 /\ TokenIndex(ret.result.forwardToken) = final_index - 1
           /\ (BothTokensAt(sess.before.result, 0) /\ FedForward) =>
                 /\ page = SubSeq(V, 2, Min(L + 1, final_index + 1))
                 /\ \A i \in 1..Len(page) : page[i] # V[1]
                 /\ TokenIndex(ret.result.backwardToken) = 1
                 /\ TokenIndex(ret.result.forwardToken) = Min(L, final_index)

\* the flip at the end of a view of MaxView events with limit 1: the page
\* is the event before the last
C20_Witness ==
    /\ FollowedCall /\ FedBackward
    /\ Len(ViewOfCall) = MaxView
    /\ ret.args.limit = 1
    /\ sess.before.result.events = <<>>
    /\ BothTokensAt(sess.before.result, MaxView - 1)
    /\ ret.result.events = <<ViewOfCall[MaxView - 1]>>

\* the flip at the start
C20_WitnessStart ==
    /\ FollowedCall /\ FedForward
    /\ Len(ViewOfCall) = MaxView
    /\ ret.args.limit = 1
    /\ sess.before.result.events = <<>>
    /\ BothTokensAt(sess.before.result, 0)
    /\ ret.result.events = <<ViewOfCall[2]>>

====
